---- MODULE Spec2Model ----
(***************************************************************************)
(* ChessBot (src/code.cpp): the Chess game object, its move generator,     *)
(* check detector, move executor (apply / undo), endgame detector and the  *)
(* alpha-beta search of PathNode, as a state machine over the public turn  *)
(* operations.                                                             *)
(*                                                                         *)
(* Numbers are the C++ values: pieces are the ChessPieces enum, a move     *)
(* string is the tuple of its four character codes, a float score is kept  *)
(* as twice its value (every table entry is a multiple of 0.5).            *)
(***************************************************************************)
EXTENDS Integers, Sequences, FiniteSets

VARIABLES
    chess,      \* the Chess object: board, players, log, turn, counter
    stray,      \* the bytes next to Chess::board that an unchecked probe reads
    bots,       \* the colours main lets the bot play (game_mode, player colour)
    tape,       \* which input tape the players type (index into Tapes)
    typed,      \* how many moves of the tape have been typed so far
    free,       \* how many moves beyond the tape have been typed
    outcome,    \* what the last CheckEndgame reported
    pending,    \* all_moves of the PlayersTurn call that is waiting for input
    random,     \* the number GetRandomNumber(2, 5) returns in this game
    ghost       \* history kept for the properties only

vars == <<chess, stray, bots, tape, typed, free, outcome, pending, random, ghost>>

-----------------------------------------------------------------------------
(* Enums and constants                                                     *)

BOARD_SIZE == 8
B_KING == -6
B_QUEEN == -5
B_BISHOP == -4
B_KNIGHT == -3
B_ROOK == -2
B_PAWN == -1
EMPTY == 0
W_KING == 1
W_QUEEN == 2
W_BISHOP == 3
W_KNIGHT == 4
W_ROOK == 5
W_PAWN == 6

NORMAL == "NORMAL"
CASTLING == "CASTLING"
PROMOTION == "PROMOTION"
EN_PASSANT == "EN_PASSANT"

CHECKMATE == "CHECKMATE"
FIFTY_MOVES == "FIFTY_MOVES"
THREEFOLD_REP == "THREEFOLD_REP"
QUIT == "QUIT"
ONGOING == "ONGOING"

CharA == 97
Char8 == 56
FiftyLimit == 50
PosInf == 19998
AlphaInit == 20000

\* C++ bool used as an integer
B2I(b) == IF b THEN 1 ELSE 0

Abs(n) == IF n < 0 THEN -n ELSE n

Max(a, b) == IF a >= b THEN a ELSE b

Min(a, b) == IF a <= b THEN a ELSE b

RECURSIVE Reverse(_)
Reverse(s) == IF s = <<>> THEN <<>> ELSE Append(Reverse(Tail(s)), Head(s))

STARTING_BOARD ==
    << B_ROOK, B_KNIGHT, B_BISHOP, B_QUEEN, B_KING, B_BISHOP, B_KNIGHT, B_ROOK,
       B_PAWN, B_PAWN, B_PAWN, B_PAWN, B_PAWN, B_PAWN, B_PAWN, B_PAWN,
       EMPTY, EMPTY, EMPTY, EMPTY, EMPTY, EMPTY, EMPTY, EMPTY,
       EMPTY, EMPTY, EMPTY, EMPTY, EMPTY, EMPTY, EMPTY, EMPTY,
       EMPTY, EMPTY, EMPTY, EMPTY, EMPTY, EMPTY, EMPTY, EMPTY,
       EMPTY, EMPTY, EMPTY, EMPTY, EMPTY, EMPTY, EMPTY, EMPTY,
       W_PAWN, W_PAWN, W_PAWN, W_PAWN, W_PAWN, W_PAWN, W_PAWN, W_PAWN,
       W_ROOK, W_KNIGHT, W_BISHOP, W_QUEEN, W_KING, W_BISHOP, W_KNIGHT, W_ROOK >>

-----------------------------------------------------------------------------
(* Coordinates and board memory                                            *)

WithinBounds(coord) == coord >= 0 /\ coord < BOARD_SIZE

\* the four characters of a move, from numerical coordinates
ToString(x1, y1, x2, y2) == <<x1 + CharA, Char8 - y1, x2 + CharA, Char8 - y2>>

ChangeToRealCoordinates(m) ==
    <<m[1] - CharA, Char8 - m[2], m[3] - CharA, Char8 - m[4]>>

ChangeToString(m) ==
    <<m[1] + CharA, Char8 - m[2], m[3] + CharA, Char8 - m[4]>>

\* std::string operator< on two four-character moves
StrLess(a, b) ==
    \/ a[1] < b[1]
    \/ a[1] = b[1] /\ a[2] < b[2]
    \/ a[1] = b[1] /\ a[2] = b[2] /\ a[3] < b[3]
    \/ a[1] = b[1] /\ a[2] = b[2] /\ a[3] = b[3] /\ a[4] < b[4]

\* board[y][x] of char board[8][8]: row-major memory, so an index pair outside
\* 0..7 reads the neighbouring row or, outside the array, a stray byte.
Cell(b, y, x) ==
    LET k == BOARD_SIZE * y + x
    IN  IF k >= 0 /\ k < BOARD_SIZE * BOARD_SIZE THEN b[k + 1]
        ELSE IF k < 0 THEN stray.lo ELSE stray.hi

\* board[y][x] = v for in-range y, x
Put(b, y, x, v) == [b EXCEPT ![BOARD_SIZE * y + x + 1] = v]

GetPiece(c, x, y) == Cell(c.board, y, x)

GetTurn(c) == c.whites_turn

GetCurrentPlayerConst(c) == IF c.whites_turn THEN c.white ELSE c.black

GetOtherPlayerConst(c) == IF c.whites_turn THEN c.black ELSE c.white

\* SetCastling that leaves the flag as it is
SetCurrentCastlingNever(c, v) == c

SetCurrentCastling(c, v) ==
    IF c.whites_turn THEN [c EXCEPT !.white.castling = v]
    ELSE [c EXCEPT !.black.castling = v]

ChangeTurn(c) == [c EXCEPT !.whites_turn = ~c.whites_turn]

\* the IsValid lambdas of the generators
IsEnemy(turn, ch) == IF turn THEN ch < 0 ELSE ch > 0

IsNotOwn(turn, ch) == IF turn THEN ch <= 0 ELSE ch >= 0

EvaluatePiece(piece) ==
    CASE piece = W_PAWN \/ piece = B_PAWN -> 10
      [] piece = W_ROOK \/ piece = B_ROOK -> 50
      [] piece \in {W_KNIGHT, B_KNIGHT, W_BISHOP, B_BISHOP} -> 30
      [] piece = W_QUEEN \/ piece = B_QUEEN -> 90
      [] piece = W_KING \/ piece = B_KING -> 900
      [] OTHER -> 0

-----------------------------------------------------------------------------
(* Move log                                                                *)

\* all_game_moves.back()
Back(c) == c.all_game_moves[Len(c.all_game_moves)]

\* *prev(all_game_moves.cend(), n)
PrevEnd(c, n) == c.all_game_moves[Len(c.all_game_moves) - n + 1]

\* second[i] of a log entry, i counted from 0 as in the source
Chr(entry, i) == entry.second[i + 1]

AppendToAllGameMoves(c, x1, y1, x2, y2) ==
    LET b == c.board
    IN  IF /\ GetCurrentPlayerConst(c).castling
           /\ Cell(b, y1, x1) = B_KING + 7 * B2I(c.whites_turn)
           /\ (x2 = 2 \/ x2 = 6)
        THEN [c EXCEPT !.all_game_moves =
                 Append(@, [first |-> CASTLING, second |-> <<x2>>])]
        ELSE [c EXCEPT !.all_game_moves =
                 Append(@, [first |-> NORMAL,
                            second |-> ToString(x1, y1, x2, y2)
                                       \o <<Cell(b, y1, x1), Cell(b, y2, x2)>>])]

\* GetEnPassant(x, y) without the test that the last move was a double step
GetEnPassantAnyStep(c, x, y) ==
    IF c.all_game_moves = <<>> THEN -1
    ELSE IF Back(c).first # NORMAL THEN -1
    ELSE LET e == Back(c).second
             last_move == ChangeToRealCoordinates(e)
             t == B2I(c.whites_turn)
         IN  IF /\ e[5] = W_PAWN - 7 * t
                /\ Abs(last_move[1] - x) = 1
                /\ y = 4 - t
             THEN last_move[1] ELSE -1

\* GetEnPassant(x, y): the file a pawn on (x, y) may capture onto en passant, or -1
GetEnPassant(c, x, y) ==
    IF c.all_game_moves = <<>> THEN -1
    ELSE IF Back(c).first # NORMAL THEN -1
    ELSE LET e == Back(c).second
             last_move == ChangeToRealCoordinates(e)
             t == B2I(c.whites_turn)
         IN  IF /\ e[5] = W_PAWN - 7 * t
                /\ Abs(last_move[1] - x) = 1
                /\ last_move[4] - last_move[2] = 2 * (IF c.whites_turn THEN 1 ELSE -1)
                /\ y = 4 - t
             THEN last_move[1] ELSE -1

-----------------------------------------------------------------------------
(* Check detector                                                          *)

\* one of the eight ray loops of IsCheck: walks from (i, j) in steps (di, dj)
RECURSIVE RayCheck(_, _, _, _, _, _, _)
RayCheck(b, i, j, di, dj, p1, p2) ==
    IF ~(WithinBounds(i) /\ WithinBounds(j)) THEN FALSE
    ELSE LET ch == Cell(b, j, i)
         IN  IF ch = p1 THEN TRUE
             ELSE IF ch = p2 THEN TRUE
             ELSE IF ch # EMPTY THEN FALSE
             ELSE RayCheck(b, i + di, j + dj, di, dj, p1, p2)

\* the first loop of IsCheck: columns i outward, rows j inward; n = 8*i + j
\* is the one square that holds the king
FindKing(b, king) ==
    LET n == CHOOSE m \in 0..(BOARD_SIZE * BOARD_SIZE - 1) :
                 b[BOARD_SIZE * (m % BOARD_SIZE) + (m \div BOARD_SIZE) + 1] = king
    IN  <<n \div BOARD_SIZE, n % BOARD_SIZE>>

KingSquare(b, turn) == FindKing(b, B_KING + 7 * B2I(turn))

\* IsCheck(const bool &turn): is the king of colour turn attacked
IsCheckAt(b, turn, x, y) ==
    LET t == B2I(turn)
        rook == W_ROOK - 7 * t
        queen == W_QUEEN - 7 * t
        bishop == W_BISHOP - 7 * t
        knight == W_KNIGHT - 7 * t
        king == W_KING - 7 * t
        pawn == W_PAWN - 7 * t
        py == y + (IF turn THEN -1 ELSE 1)
    IN  \/ RayCheck(b, x + 1, y, 1, 0, rook, queen)
        \/ RayCheck(b, x - 1, y, -1, 0, rook, queen)
        \/ RayCheck(b, x, y + 1, 0, 1, rook, queen)
        \/ RayCheck(b, x, y - 1, 0, -1, rook, queen)
        \/ RayCheck(b, x - 1, y - 1, -1, -1, bishop, queen)
        \/ RayCheck(b, x - 1, y + 1, -1, 1, bishop, queen)
        \/ RayCheck(b, x + 1, y - 1, 1, -1, bishop, queen)
        \/ RayCheck(b, x + 1, y + 1, 1, 1, bishop, queen)
        \/ \E i \in (x - 1)..(x + 1) : \E j \in (y - 1)..(y + 1) :
               Cell(b, j, i) = king /\ WithinBounds(i) /\ WithinBounds(j)
        \/ Cell(b, y - 1, x - 2) = knight /\ y > 0 /\ x > 1
        \/ Cell(b, y - 1, x + 2) = knight /\ y > 0 /\ x < BOARD_SIZE - 2
        \/ Cell(b, y + 1, x - 2) = knight /\ y < BOARD_SIZE - 1 /\ x > 1
        \/ Cell(b, y + 1, x + 2) = knight /\ y < BOARD_SIZE - 1 /\ x < BOARD_SIZE - 2
        \/ Cell(b, y - 2, x - 1) = knight /\ y > 1 /\ x > 0
        \/ Cell(b, y - 2, x + 1) = knight /\ y > 1 /\ x < BOARD_SIZE - 1
        \/ Cell(b, y + 2, x - 1) = knight /\ y < BOARD_SIZE - 2 /\ x > 0
        \/ Cell(b, y + 2, x + 1) = knight /\ y < BOARD_SIZE - 2 /\ x < BOARD_SIZE - 1
        \/ Cell(b, py, x + 1) = pawn /\ x < BOARD_SIZE - 1
        \/ Cell(b, py, x - 1) = pawn /\ x > 0

IsCheck(b, turn) ==
    LET k == KingSquare(b, turn) IN IsCheckAt(b, turn, k[1], k[2])

\* the index pairs <<row, column>> that the king, knight and pawn tests of
\* IsCheck read for the king on (x, y): each reads board[row][column] first
\* and compares the indices with the bounds afterwards, or not at all
IsCheckProbes(turn, x, y) ==
    {<<j, i>> : i \in (x - 1)..(x + 1), j \in (y - 1)..(y + 1)}
    \cup {<<y - 1, x - 2>>, <<y - 1, x + 2>>, <<y + 1, x - 2>>, <<y + 1, x + 2>>,
          <<y - 2, x - 1>>, <<y - 2, x + 1>>, <<y + 2, x - 1>>, <<y + 2, x + 1>>}
    \cup {<<y + (IF turn THEN -1 ELSE 1), x + 1>>,
          <<y + (IF turn THEN -1 ELSE 1), x - 1>>}

\* the pairs a call of IsCheck(turn) has read when it returns false: every
\* test was reached and none returned early
IsCheckReads(b, turn) ==
    IF IsCheck(b, turn) THEN {}
    ELSE IsCheckProbes(turn, KingSquare(b, turn)[1], KingSquare(b, turn)[2])

-----------------------------------------------------------------------------
(* Move generator: every list is a std::forward_list, head first.  Each    *)
(* generator collects its emplace_front calls in call order and reverses.  *)

\* PawnMoves without the two-square advance from the starting rank
PawnMovesOneStep(c, x, y) ==
    LET b == c.board
        turn == c.whites_turn
        inc == IF turn THEN -1 ELSE 1
        ep == GetEnPassant(c, x, y)
        push == IF Cell(b, y + inc, x) = EMPTY
                THEN <<ToString(x, y, x, y + inc)>> ELSE <<>>
        pass == IF ep # -1 THEN <<ToString(x, y, ep, y + inc)>> ELSE <<>>
        right == IF IsEnemy(turn, Cell(b, y + inc, x + 1)) /\ x < BOARD_SIZE - 1
                 THEN <<ToString(x, y, x + 1, y + inc)>> ELSE <<>>
        left == IF IsEnemy(turn, Cell(b, y + inc, x - 1)) /\ x > 0
                THEN <<ToString(x, y, x - 1, y + inc)>> ELSE <<>>
    IN  Reverse(push \o pass \o right \o left)

PawnMoves(c, x, y) ==
    LET b == c.board
        turn == c.whites_turn
        inc == IF turn THEN -1 ELSE 1
        ep == GetEnPassant(c, x, y)
        push == IF Cell(b, y + inc, x) = EMPTY
                THEN <<ToString(x, y, x, y + inc)>>
                     \o (IF y = 1 + 5 * B2I(turn) /\ Cell(b, y + 2 * inc, x) = EMPTY
                         THEN <<ToString(x, y, x, y + 2 * inc)>> ELSE <<>>)
                ELSE <<>>
        pass == IF ep # -1 THEN <<ToString(x, y, ep, y + inc)>> ELSE <<>>
        right == IF IsEnemy(turn, Cell(b, y + inc, x + 1)) /\ x < BOARD_SIZE - 1
                 THEN <<ToString(x, y, x + 1, y + inc)>> ELSE <<>>
        left == IF IsEnemy(turn, Cell(b, y + inc, x - 1)) /\ x > 0
                THEN <<ToString(x, y, x - 1, y + inc)>> ELSE <<>>
    IN  Reverse(push \o pass \o right \o left)

\* one ray loop of RookMoves / BishopMoves, in emplace order
RECURSIVE RayMoves(_, _, _, _, _, _, _, _)
RayMoves(b, turn, x, y, i, j, di, dj) ==
    IF ~(WithinBounds(i) /\ WithinBounds(j)) THEN <<>>
    ELSE IF Cell(b, j, i) = EMPTY
         THEN <<ToString(x, y, i, j)>>
              \o RayMoves(b, turn, x, y, i + di, j + dj, di, dj)
         ELSE IF IsEnemy(turn, Cell(b, j, i)) THEN <<ToString(x, y, i, j)>>
              ELSE <<>>

RookMoves(c, x, y) ==
    LET b == c.board
        t == c.whites_turn
    IN  Reverse(RayMoves(b, t, x, y, x + 1, y, 1, 0)
                \o RayMoves(b, t, x, y, x - 1, y, -1, 0)
                \o RayMoves(b, t, x, y, x, y + 1, 0, 1)
                \o RayMoves(b, t, x, y, x, y - 1, 0, -1))

BishopMoves(c, x, y) ==
    LET b == c.board
        t == c.whites_turn
    IN  Reverse(RayMoves(b, t, x, y, x - 1, y - 1, -1, -1)
                \o RayMoves(b, t, x, y, x - 1, y + 1, -1, 1)
                \o RayMoves(b, t, x, y, x + 1, y - 1, 1, -1)
                \o RayMoves(b, t, x, y, x + 1, y + 1, 1, 1))

\* one guarded emplace_front of KnightMoves
Jump(b, turn, x, y, dx, dy, ok) ==
    IF IsNotOwn(turn, Cell(b, y + dy, x + dx)) /\ ok
    THEN <<ToString(x, y, x + dx, y + dy)>> ELSE <<>>

KnightMoves(c, x, y) ==
    LET b == c.board
        t == c.whites_turn
    IN  Reverse(Jump(b, t, x, y, -2, -1, y > 0 /\ x > 1)
                \o Jump(b, t, x, y, 2, -1, y > 0 /\ x < BOARD_SIZE - 2)
                \o Jump(b, t, x, y, -2, 1, y < BOARD_SIZE - 1 /\ x > 1)
                \o Jump(b, t, x, y, 2, 1, y < BOARD_SIZE - 1 /\ x < BOARD_SIZE - 2)
                \o Jump(b, t, x, y, -1, -2, y > 1 /\ x > 0)
                \o Jump(b, t, x, y, 1, -2, y > 1 /\ x < BOARD_SIZE - 1)
                \o Jump(b, t, x, y, -1, 2, y < BOARD_SIZE - 2 /\ x > 0)
                \o Jump(b, t, x, y, 1, 2, y < BOARD_SIZE - 2 /\ x < BOARD_SIZE - 1))

\* std::forward_list::merge as the library runs it, sorted input or not
RECURSIVE Merge(_, _)
Merge(a, o) ==
    IF o = <<>> THEN a
    ELSE IF a = <<>> THEN o
    ELSE IF StrLess(Head(o), Head(a)) THEN <<Head(o)>> \o Merge(a, Tail(o))
    ELSE <<Head(a)>> \o Merge(Tail(a), o)

QueenMoves(c, x, y) == Merge(RookMoves(c, x, y), BishopMoves(c, x, y))

\* the castling part of KingMoves without the test for check
CastlingMovesInCheck(c) ==
    LET b == c.board
        t == B2I(c.whites_turn)
        line == (BOARD_SIZE - 1) * t
    IN  IF GetCurrentPlayerConst(c).castling
        THEN IF /\ Cell(b, line, 0) = B_ROOK + 7 * t
                /\ Cell(b, line, 1) = EMPTY
                /\ Cell(b, line, 2) = EMPTY
                /\ Cell(b, line, 3) = EMPTY
             THEN <<ToString(4, line, 2, line)>>
             ELSE IF /\ Cell(b, line, 7) = B_ROOK + 7 * t
                     /\ Cell(b, line, 5) = EMPTY
                     /\ Cell(b, line, 6) = EMPTY
                  THEN <<ToString(4, line, 6, line)>>
                  ELSE <<>>
        ELSE <<>>

\* the castling part of KingMoves, in emplace order
CastlingMoves(c) ==
    LET b == c.board
        t == B2I(c.whites_turn)
        line == (BOARD_SIZE - 1) * t
    IN  IF GetCurrentPlayerConst(c).castling
        THEN IF ~IsCheck(b, c.whites_turn)
             THEN IF /\ Cell(b, line, 0) = B_ROOK + 7 * t
                     /\ Cell(b, line, 1) = EMPTY
                     /\ Cell(b, line, 2) = EMPTY
                     /\ Cell(b, line, 3) = EMPTY
                  THEN <<ToString(4, line, 2, line)>>
                  ELSE IF /\ Cell(b, line, 7) = B_ROOK + 7 * t
                          /\ Cell(b, line, 5) = EMPTY
                          /\ Cell(b, line, 6) = EMPTY
                       THEN <<ToString(4, line, 6, line)>>
                       ELSE <<>>
             ELSE <<>>
        ELSE <<>>

\* the nested loop of KingMoves: i outer, j inner
RECURSIVE KingSteps(_, _, _, _, _)
KingSteps(b, turn, x, y, n) ==
    IF n = 9 THEN <<>>
    ELSE LET i == x - 1 + (n \div 3)
             j == y - 1 + (n % 3)
         IN  (IF IsNotOwn(turn, Cell(b, j, i)) /\ WithinBounds(i) /\ WithinBounds(j)
              THEN <<ToString(x, y, i, j)>> ELSE <<>>)
             \o KingSteps(b, turn, x, y, n + 1)

KingMoves(c, x, y) ==
    Reverse(KingSteps(c.board, c.whites_turn, x, y, 0) \o CastlingMoves(c))

-----------------------------------------------------------------------------
(* Move executor                                                           *)

SetBackFirst(c, kind) ==
    [c EXCEPT !.all_game_moves[Len(c.all_game_moves)].first = kind]

PushBack(c, ch) ==
    [c EXCEPT !.all_game_moves[Len(c.all_game_moves)].second = Append(@, ch)]

IncreaseCurrentScore(c, inc) ==
    IF c.whites_turn THEN [c EXCEPT !.white.score = (@ + inc) % 65536]
    ELSE [c EXCEPT !.black.score = (@ + inc) % 65536]

\* IncreaseScore that adds nothing
IncreaseNoScore(c, inc) == c

IncreaseOtherScore(c, inc) ==
    IF c.whites_turn THEN [c EXCEPT !.black.score = (@ + inc) % 65536]
    ELSE [c EXCEPT !.white.score = (@ + inc) % 65536]

\* the piece ManuallyPromotePawn writes for the key pressed (pick = the white code)
ManuallyPromotePawn(c, x, y, pick) ==
    [c EXCEPT !.board = Put(@, y, x, IF c.whites_turn THEN pick ELSE pick - 7)]

\* case W_PAWN / B_PAWN of MovePiece
MovePawn(c, x1, y1, x2, y2, manual_promotion, update_board, pick) ==
    IF y2 = (BOARD_SIZE - 1) * B2I(~c.whites_turn)
    THEN LET c1 == IF manual_promotion THEN ManuallyPromotePawn(c, x1, y1, pick)
                   ELSE IF (IF c.whites_turn THEN c.white_bot_random
                                             ELSE c.black_bot_random)
                        THEN [c EXCEPT !.board =
                                 Put(@, y1, x1, (IF c.whites_turn THEN 1 ELSE -1) * random)]
                        ELSE [c EXCEPT !.board =
                                 Put(@, y1, x1, IF c.whites_turn THEN W_QUEEN ELSE B_QUEEN)]
         IN  PushBack(SetBackFirst(c1, PROMOTION), Cell(c1.board, y1, x1))
    ELSE IF x1 # x2 /\ Cell(c.board, y2, x2) = EMPTY
         THEN LET c1 == [c EXCEPT !.board = Put(@, y1, x2, EMPTY)]
                  c2 == IF update_board
                        THEN IncreaseCurrentScore(c1, EvaluatePiece(W_PAWN))
                        ELSE c1
              IN  SetBackFirst(c2, EN_PASSANT)
         ELSE c

\* case W_KING / B_KING of MovePiece, up to the fall-through
MoveKing(c, x2) ==
    IF GetCurrentPlayerConst(c).castling
    THEN LET line == (BOARD_SIZE - 1) * B2I(c.whites_turn)
             b == c.board
         IN  CASE x2 = 2 ->
                    [c EXCEPT !.board = Put(Put(b, line, 3, Cell(b, line, 0)),
                                            line, 0, EMPTY)]
               [] x2 = 6 ->
                    [c EXCEPT !.board = Put(Put(b, line, 5, Cell(b, line, 7)),
                                            line, 7, EMPTY)]
               [] OTHER -> c
    ELSE c

\* the switch of MovePiece on the piece that moves
MovePieceSwitch(c, x1, y1, x2, y2, manual_promotion, update_board, pick) ==
    LET piece == Cell(c.board, y1, x1)
    IN  CASE piece = W_PAWN \/ piece = B_PAWN ->
               MovePawn(c, x1, y1, x2, y2, manual_promotion, update_board, pick)
          [] piece = W_KING \/ piece = B_KING ->
               SetCurrentCastling(MoveKing(c, x2), FALSE)
          [] piece = W_ROOK \/ piece = B_ROOK ->
               SetCurrentCastling(c, FALSE)
          [] OTHER -> c

\* the mover's castling flag pushed onto the log entry
\* the entry that records the flag as lost whatever the player's flag is
MovePieceFlagLost(c) ==
    IF Back(c).first # CASTLING THEN PushBack(c, 0) ELSE c

MovePieceFlag(c) ==
    IF Back(c).first # CASTLING
    THEN PushBack(c, B2I(GetCurrentPlayerConst(c).castling))
    ELSE c

\* board[y2][x2] = board[y1][x1], board[y1][x1] = EMPTY
MovePieceShift(c, x1, y1, x2, y2) ==
    [c EXCEPT !.board = Put(Put(@, y2, x2, Cell(c.board, y1, x1)), y1, x1, EMPTY)]

\* the score and the counter reset of a capture on the real board
MovePieceScore(c, update_board) ==
    IF /\ update_board
       /\ Back(c).first # CASTLING
       /\ Chr(Back(c), 5) # EMPTY
    THEN [IncreaseCurrentScore(c, EvaluatePiece(Chr(Back(c), 5)))
             EXCEPT !.moves_after_last_pawn_move_or_capture = 0]
    ELSE c

MovePiece(c, x1, y1, x2, y2, manual_promotion, update_board, pick) ==
    ChangeTurn(
        MovePieceScore(
            MovePieceShift(
                MovePieceFlag(
                    MovePieceSwitch(AppendToAllGameMoves(c, x1, y1, x2, y2),
                                    x1, y1, x2, y2,
                                    manual_promotion, update_board, pick)),
                x1, y1, x2, y2),
            update_board))

\* the undo of a rook or king move that always sets the flag
RestoreCastlingAlways(c) == SetCurrentCastling(c, TRUE)

\* the flag the log entry three from the end recorded (rook and king undo)
RestoreCastling(c) ==
    LET e == PrevEnd(c, 3)
    IN  IF e.first # CASTLING
        THEN IF Chr(e, 6 + B2I(e.first = PROMOTION)) # 0
             THEN SetCurrentCastling(c, TRUE) ELSE c
        ELSE c

\* board[y1][x1] = board[y2][x2], and board[y2][x2] takes the piece the
\* log entry recorded as captured
\* the shift back that leaves a copy of the piece on the square it went to
MovePieceBackShiftCopy(c, x1, y1, x2, y2) ==
    [c EXCEPT !.board = Put(@, y1, x1, Cell(c.board, y2, x2))]

MovePieceBackShift(c, x1, y1, x2, y2) ==
    [c EXCEPT !.board =
        Put(Put(@, y1, x1, Cell(c.board, y2, x2)), y2, x2,
            IF Back(c).first = CASTLING THEN EMPTY ELSE Chr(Back(c), 5))]

\* case W_KING / B_KING of MovePieceBack for a castling entry
MoveKingBack(c, x2) ==
    LET line == (BOARD_SIZE - 1) * B2I(c.whites_turn)
        b == c.board
    IN  CASE x2 = 2 ->
               [c EXCEPT !.board = Put(Put(b, line, 0, Cell(b, line, 3)),
                                       line, 3, EMPTY)]
          [] x2 = 6 ->
               [c EXCEPT !.board = Put(Put(b, line, 5, Cell(b, line, 7)),
                                       line, 7, EMPTY)]
          [] OTHER -> c

\* the switch of MovePieceBack on the piece put back
MovePieceBackSwitch(c, x1, y1, x2, y2) ==
    LET piece == Cell(c.board, y1, x1)
    IN  CASE piece = W_PAWN \/ piece = B_PAWN ->
               IF x1 # x2 /\ Cell(c.board, y2, x2) = EMPTY
               THEN [c EXCEPT !.board =
                        Put(@, y1, x2, IF c.whites_turn THEN B_PAWN ELSE W_PAWN)]
               ELSE c
          [] piece = W_ROOK \/ piece = B_ROOK -> RestoreCastling(c)
          [] piece = W_QUEEN \/ piece = B_QUEEN ->
               IF Back(c).first = PROMOTION
               THEN [c EXCEPT !.board =
                        Put(@, y1, x1, IF c.whites_turn THEN W_PAWN ELSE B_PAWN)]
               ELSE c
          [] piece = W_KING \/ piece = B_KING ->
               IF Back(c).first = CASTLING
               THEN SetCurrentCastling(MoveKingBack(c, x2), TRUE)
               ELSE RestoreCastling(c)
          [] OTHER -> c

\* MovePieceBack that leaves the entry in the log
PopBackNever(c) == c

\* all_game_moves.pop_back()
PopBack(c) == [c EXCEPT !.all_game_moves = SubSeq(@, 1, Len(@) - 1)]

MovePieceBack(c, x1, y1, x2, y2) ==
    PopBack(MovePieceBackSwitch(MovePieceBackShift(ChangeTurn(c), x1, y1, x2, y2),
                                x1, y1, x2, y2))

\* IsCheck(move) that never finds a check and touches nothing
IsCheckMoveNever(c, move) == [is_check |-> FALSE, c |-> c]

\* IsCheck(std::string &move): apply, look at the mover's king, undo
IsCheckApplied(applied, x1, y1, x2, y2) ==
    [is_check |-> IsCheck(applied.board, ~applied.whites_turn),
     c |-> MovePieceBack(applied, x1, y1, x2, y2)]

IsCheckReal(c, x1, y1, x2, y2) ==
    IsCheckApplied(MovePiece(c, x1, y1, x2, y2, FALSE, FALSE, W_QUEEN), x1, y1, x2, y2)

IsCheckMove(c, move) ==
    LET r == ChangeToRealCoordinates(move)
    IN  IsCheckReal(c, r[1], r[2], r[3], r[4])

\* the generator switch of AllMoves for the square (x, y)
SquareMoves(c, x, y) ==
    LET p == Cell(c.board, y, x)
    IN  IF (p < 0) = c.whites_turn THEN <<>>
        ELSE CASE p = W_PAWN \/ p = B_PAWN -> PawnMoves(c, x, y)
               [] p = W_ROOK \/ p = B_ROOK -> RookMoves(c, x, y)
               [] p = W_KNIGHT \/ p = B_KNIGHT -> KnightMoves(c, x, y)
               [] p = W_BISHOP \/ p = B_BISHOP -> BishopMoves(c, x, y)
               [] p = W_QUEEN \/ p = B_QUEEN -> QueenMoves(c, x, y)
               [] p = W_KING \/ p = B_KING -> KingMoves(c, x, y)
               [] OTHER -> <<>>

\* the first loop of AllMoves over the squares numbered lo..hi in the order
\* of the loop (square n is column n % 8 of row n \div 8).  The range is
\* halved, and the first half worked out before the second is begun, so
\* that no evaluation nests deeper than a few calls.
RECURSIVE Generate(_, _, _, _), GenerateOn(_, _, _, _)
Generate(c, all_moves, lo, hi) ==
    IF lo = hi
    THEN Merge(all_moves, SquareMoves(c, lo % BOARD_SIZE, lo \div BOARD_SIZE))
    ELSE GenerateOn(c, Generate(c, all_moves, lo, (lo + hi) \div 2),
                    (lo + hi) \div 2 + 1, hi)

\* the loop goes on over the squares lo..hi with the list it has so far
GenerateOn(c, all_moves, lo, hi) ==
    IF all_moves = <<>> THEN Generate(c, <<>>, lo, hi)
    ELSE Generate(c, all_moves, lo, hi)

\* one test of the remove_if of AllMoves: s holds the moves kept so far and
\* the Chess object as the tests before left it
FilterKeep(s, move, r) ==
    [moves |-> IF r.is_check THEN s.moves ELSE Append(s.moves, move), c |-> r.c]

FilterStep(s, move) == FilterKeep(s, move, IsCheckMove(s.c, move))

\* the remove_if of AllMoves over the moves lo..hi of the list
RECURSIVE Filter(_, _, _, _), FilterOn(_, _, _, _)
Filter(s, all_moves, lo, hi) ==
    IF lo > hi THEN s
    ELSE IF lo = hi THEN FilterStep(s, all_moves[lo])
    ELSE FilterOn(Filter(s, all_moves, lo, (lo + hi) \div 2), all_moves,
                  (lo + hi) \div 2 + 1, hi)

\* the remove_if goes on over the moves lo..hi with what it has so far
FilterOn(s, all_moves, lo, hi) ==
    IF s.moves = <<>> THEN Filter([moves |-> <<>>, c |-> s.c], all_moves, lo, hi)
    ELSE Filter(s, all_moves, lo, hi)

AllMovesOf(c, all_moves) ==
    Filter([moves |-> <<>>, c |-> c], all_moves, 1, Len(all_moves))

\* AllMoves: the list returned, and the Chess object as the tests left it
AllMoves(c) == AllMovesOf(c, Generate(c, <<>>, 0, BOARD_SIZE * BOARD_SIZE - 1))

-----------------------------------------------------------------------------
(* Endgame detector                                                        *)

\* GetEnPassant(board, it): the en-passant file judged from log entry number k
GetEnPassantAt(c, brd, k) ==
    LET e == c.all_game_moves[k]
        t == B2I(c.whites_turn)
    IN  IF e.first # NORMAL THEN -1
        ELSE LET last_move == ChangeToRealCoordinates(e.second)
             IN  IF /\ \E x \in 0..(BOARD_SIZE - 1) :
                          /\ Cell(brd, 3 + t, x) = W_PAWN - 7 * t
                          /\ Abs(last_move[1] - x) = 1
                    /\ Chr(e, 4) = B_PAWN + 7 * t
                    /\ last_move[4] - last_move[2] = 2 * (IF c.whites_turn THEN -1 ELSE 1)
                 THEN last_move[1] ELSE -1

\* the castling, en-passant and count tests after the board comparison
SamePosition(c, prev_board, k) ==
    LET e == c.all_game_moves[k]
        n == Len(c.all_game_moves)
    IN  /\ prev_board = c.board
        /\ B2I(GetOtherPlayerConst(c).castling)
             = (IF e.first = CASTLING THEN 0
                ELSE Chr(e, 6 + B2I(e.first = PROMOTION)))
        /\ (IF n > 1 THEN GetEnPassantAt(c, c.board, n - 1) ELSE -1)
             = (IF k - 1 = 0 THEN -1 ELSE GetEnPassantAt(c, prev_board, k - 1))

\* the while(true) loop of ThreefoldRepetition: it points at log entry k,
\* i is the inner for counter
RECURSIVE ThreefoldWalk(_, _, _, _, _)
ThreefoldWalk(c, prev_board, k, i, position_count) ==
    IF i < 2
    THEN LET e == c.all_game_moves[k]
         IN  IF e.first = CASTLING THEN FALSE
             ELSE IF Chr(e, 4) = W_PAWN \/ Chr(e, 4) = B_PAWN \/ Chr(e, 5) # EMPTY
                  THEN FALSE
                  ELSE LET m == ChangeToRealCoordinates(e.second)
                           b1 == Put(Put(prev_board, m[2], m[1], Chr(e, 4)),
                                     m[4], m[3], EMPTY)
                           b2 == IF e.first = EN_PASSANT
                                 THEN Put(b1, m[2], m[3],
                                          IF i = B2I(c.whites_turn)
                                          THEN B_PAWN ELSE W_PAWN)
                                 ELSE b1
                       IN  IF k - 1 = 0 THEN FALSE
                           ELSE ThreefoldWalk(c, b2, k - 1, i + 1, position_count)
    ELSE IF SamePosition(c, prev_board, k)
         THEN IF position_count + 1 = 3 THEN TRUE
              ELSE ThreefoldWalk(c, prev_board, k, 0, position_count + 1)
         ELSE ThreefoldWalk(c, prev_board, k, 0, position_count)

ThreefoldRepetition(c) ==
    ThreefoldWalk(c, c.board, Len(c.all_game_moves), 0, 1)

\* the increment left out
TickNever(c) == c

\* ++moves_after_last_pawn_move_or_capture
Tick(c) ==
    [c EXCEPT !.moves_after_last_pawn_move_or_capture = (@ + 1) % 65536]

\* was the last move in the log neither a pawn move nor a capture
Quiet(c) ==
    LET e == Back(c)
    IN  \/ e.first = CASTLING
        \/ /\ Chr(e, 4) # W_PAWN - 7 * B2I(c.whites_turn)
           /\ Chr(e, 5) = EMPTY

\* the counter set to zero after every move
CountedZero(c) == [c EXCEPT !.moves_after_last_pawn_move_or_capture = 0]

\* the counter as the branches of CheckEndgame set it
Counted(c) ==
    IF Quiet(c) THEN Tick(c)
    ELSE [c EXCEPT !.moves_after_last_pawn_move_or_capture = 0]

\* the draws CheckEndgame reports, c with its counter set
CheckEndgameDraw(c, all_moves) ==
    [c |-> c,
     outcome |-> IF Quiet(c) /\ c.moves_after_last_pawn_move_or_capture = FiftyLimit
                 THEN FIFTY_MOVES
                 ELSE IF ThreefoldRepetition(c) THEN THREEFOLD_REP ELSE ONGOING,
     all_moves |-> all_moves]

\* CheckEndgame once its call of AllMoves has returned am
CheckEndgameOf(am) ==
    IF am.moves = <<>>
    THEN [c |-> IncreaseOtherScore(am.c, EvaluatePiece(W_KING)),
          outcome |-> CHECKMATE, all_moves |-> am.moves]
    ELSE CheckEndgameDraw(Counted(am.c), am.moves)

\* CheckEndgame: the Chess object afterwards, what was reported, and the
\* list its call of AllMoves returned
CheckEndgame(c) == CheckEndgameOf(AllMoves(c))

-----------------------------------------------------------------------------
(* Search                                                                  *)

\* PIECE_POS_POINTS, every entry doubled so that the halves are whole numbers:
\* PIECE_POS_POINTS[k][row][x] is PiecePosPoints[k + 1][row + 1][x + 1] / 2
PiecePosPoints ==
    <<<<<<-6, -8, -8, -10, -10, -8, -8, -6>>,
       <<-6, -8, -8, -10, -10, -8, -8, -6>>,
       <<-6, -8, -8, -10, -10, -8, -8, -6>>,
       <<-6, -8, -8, -10, -10, -8, -8, -6>>,
       <<-4, -6, -6, -8, -8, -6, -6, -4>>,
       <<-2, -4, -4, -4, -4, -4, -4, -2>>,
       <<4, 4, 0, 0, 0, 0, 4, 4>>,
       <<4, 6, 2, 0, 0, 2, 6, 4>>>>,
      <<<<-4, -2, -2, -1, -1, -2, -2, -4>>,
       <<-2, 0, 0, 0, 0, 0, 0, -2>>,
       <<-2, 0, 1, 1, 1, 1, 0, -2>>,
       <<-1, 0, 1, 1, 1, 1, 0, -1>>,
       <<0, 0, 1, 1, 1, 1, 0, -1>>,
       <<-2, 1, 1, 1, 1, 1, 0, -2>>,
       <<-2, 0, 1, 0, 0, 0, 0, -2>>,
       <<-4, -2, -2, -1, -1, -2, -2, -4>>>>,
      <<<<-4, -2, -2, -2, -2, -2, -2, -4>>,
       <<-2, 0, 0, 0, 0, 0, 0, -2>>,
       <<-2, 0, 1, 2, 2, 1, 0, -2>>,
       <<-2, 1, 1, 2, 2, 1, 1, -2>>,
       <<-2, 0, 2, 2, 2, 2, 0, -2>>,
       <<-2, 2, 2, 2, 2, 2, 2, -2>>,
       <<-2, 1, 0, 0, 0, 0, 1, -2>>,
       <<-4, -2, -2, -2, -2, -2, -2, -4>>>>,
      <<<<-10, -8, -6, -6, -6, -6, -8, -10>>,
       <<-8, -4, 0, 0, 0, 0, -4, -8>>,
       <<-6, 0, 2, 3, 3, 2, 0, -6>>,
       <<-6, 1, 3, 4, 4, 3, 1, -6>>,
       <<-6, 0, 3, 4, 4, 3, 0, -6>>,
       <<-6, 1, 2, 3, 3, 2, 1, -6>>,
       <<-8, -4, 0, 1, 1, 0, -4, -8>>,
       <<-10, -8, -6, -6, -6, -6, -8, -10>>>>,
      <<<<0, 0, 0, 0, 0, 0, 0, 0>>,
       <<1, 2, 2, 2, 2, 2, 2, 1>>,
       <<-1, 0, 0, 0, 0, 0, 0, -1>>,
       <<-1, 0, 0, 0, 0, 0, 0, -1>>,
       <<-1, 0, 0, 0, 0, 0, 0, -1>>,
       <<-1, 0, 0, 0, 0, 0, 0, -1>>,
       <<-1, 0, 0, 0, 0, 0, 0, -1>>,
       <<0, 0, 0, 1, 1, 0, 0, 0>>>>,
      <<<<0, 0, 0, 0, 0, 0, 0, 0>>,
       <<10, 10, 10, 10, 10, 10, 10, 10>>,
       <<2, 2, 4, 6, 6, 4, 2, 2>>,
       <<1, 1, 2, 5, 5, 2, 1, 1>>,
       <<0, 0, 0, 4, 4, 0, 0, 0>>,
       <<1, -1, -2, 0, 0, -2, -1, 1>>,
       <<1, 2, 2, -4, -4, 2, 2, 1>>,
       <<0, 0, 0, 0, 0, 0, 0, 0>>>>>>

\* EvaluatePosition(x, y), doubled
EvaluatePosition(c, x, y) ==
    LET p == Cell(c.board, y, x)
    IN  IF p = EMPTY THEN 0
        ELSE (IF p < 0 THEN -1 ELSE 1)
             * (2 * EvaluatePiece(p)
                + PiecePosPoints[p + 7 * B2I(p < 0)]
                                [(IF p < 0 THEN BOARD_SIZE - y - 1 ELSE y) + 1][x + 1])

\* the inner loop of EvaluateBoard: the sum over the row y
EvaluateRow(c, y) ==
    EvaluatePosition(c, 0, y) + EvaluatePosition(c, 1, y) + EvaluatePosition(c, 2, y)
    + EvaluatePosition(c, 3, y) + EvaluatePosition(c, 4, y) + EvaluatePosition(c, 5, y)
    + EvaluatePosition(c, 6, y) + EvaluatePosition(c, 7, y)

\* EvaluateBoard that returns the total whatever the turn
EvaluateBoardOneSided(c, turn) ==
    EvaluateRow(c, 0) + EvaluateRow(c, 1) + EvaluateRow(c, 2) + EvaluateRow(c, 3)
    + EvaluateRow(c, 4) + EvaluateRow(c, 5) + EvaluateRow(c, 6) + EvaluateRow(c, 7)

\* EvaluateBoard(turn), doubled
EvaluateBoard(c, turn) ==
    (IF turn THEN 1 ELSE -1)
    * (EvaluateRow(c, 0) + EvaluateRow(c, 1) + EvaluateRow(c, 2) + EvaluateRow(c, 3)
       + EvaluateRow(c, 4) + EvaluateRow(c, 5) + EvaluateRow(c, 6) + EvaluateRow(c, 7))

\* the order of std::map<std::string, PathNode> on keys of four coordinates
KeyLess(a, b) ==
    \E i \in 1..4 : a[i] < b[i] /\ \A j \in 1..(i - 1) : a[j] = b[j]

\* child_node_list.emplace(move, PathNode()) for a key with n smaller keys in
\* the map: the key takes its place in the order, and a key already there is
\* left alone
EmplaceAt(child_node_list, key, n) ==
    IF n < Len(child_node_list) /\ child_node_list[n + 1] = key
    THEN child_node_list
    ELSE SubSeq(child_node_list, 1, n) \o <<key>>
         \o SubSeq(child_node_list, n + 1, Len(child_node_list))

Emplace(child_node_list, key) ==
    EmplaceAt(child_node_list, key,
              Cardinality({i \in 1..Len(child_node_list) :
                             KeyLess(child_node_list[i], key)}))

\* the loop of CreateSubtree over the moves lo..hi
RECURSIVE EmplaceAll(_, _, _, _), EmplaceOn(_, _, _, _)
EmplaceAll(child_node_list, moves, lo, hi) ==
    IF lo > hi THEN child_node_list
    ELSE IF lo = hi
    THEN Emplace(child_node_list, ChangeToRealCoordinates(moves[lo]))
    ELSE EmplaceOn(EmplaceAll(child_node_list, moves, lo, (lo + hi) \div 2),
                   moves, (lo + hi) \div 2 + 1, hi)

\* the loop goes on over the moves lo..hi with the map it has so far
EmplaceOn(child_node_list, moves, lo, hi) ==
    IF child_node_list = <<>> THEN EmplaceAll(<<>>, moves, lo, hi)
    ELSE EmplaceAll(child_node_list, moves, lo, hi)

\* CreateSubtree once its call of AllMoves has returned am
CreateSubtreeOf(am) ==
    [children |-> EmplaceAll(<<>>, am.moves, 1, Len(am.moves)), c |-> am.c]

\* CreateSubtree: the keys of child_node_list in the order the loops walk
\* them, and the Chess object as AllMoves leaves it
CreateSubtree(c) == CreateSubtreeOf(AllMoves(c))

\* AlphaBeta: the value (doubled), the Chess object afterwards, in plies the
\* lengths the log had at the calls of EvaluateBoard and in cuts how often
\* a loop was left by the break.  depth is the
\* caller's variable: --depth before a child and ++depth after it.
RECURSIVE AlphaBeta(_, _, _, _, _, _)

\* the pass that leaves the loop after the first child whatever alpha and beta
AlphaBetaBackEager(s, node, maximizing_player, r) ==
    LET p == IF maximizing_player THEN Max(s.points, r.points)
             ELSE Min(s.points, r.points)
        a == IF maximizing_player THEN Max(s.alpha, p) ELSE s.alpha
        b == IF maximizing_player THEN s.beta ELSE Min(s.beta, p)
    IN  [c |-> MovePieceBack(r.c, node[1], node[2], node[3], node[4]),
         alpha |-> a, beta |-> b, points |-> p, done |-> TRUE,
         plies |-> s.plies \cup r.plies,
         cuts |-> s.cuts + r.cuts + 1]

\* the rest of a pass of the loop of AlphaBeta once the call for the child
\* has returned r: points, alpha or beta, MovePieceBack, the break
AlphaBetaBack(s, node, maximizing_player, r) ==
    LET p == IF maximizing_player THEN Max(s.points, r.points)
             ELSE Min(s.points, r.points)
        a == IF maximizing_player THEN Max(s.alpha, p) ELSE s.alpha
        b == IF maximizing_player THEN s.beta ELSE Min(s.beta, p)
    IN  [c |-> MovePieceBack(r.c, node[1], node[2], node[3], node[4]),
         alpha |-> a, beta |-> b, points |-> p, done |-> a >= b,
         plies |-> s.plies \cup r.plies,
         cuts |-> s.cuts + r.cuts + B2I(a >= b)]

\* one pass of the loop of AlphaBeta, for the child node; s holds the Chess
\* object, alpha, beta, points and whether the loop has been left by the
\* return or the break
AlphaBetaStep(s, node, depth, maximizing_player, initial_turn) ==
    IF s.done THEN s
    ELSE IF GetPiece(s.c, node[3], node[4]) = W_KING - 7 * B2I(GetTurn(s.c))
    THEN [s EXCEPT !.points = IF maximizing_player THEN PosInf ELSE -PosInf,
                   !.done = TRUE]
    ELSE AlphaBetaBack(s, node, maximizing_player,
                       AlphaBeta(MovePiece(s.c, node[1], node[2], node[3], node[4],
                                           FALSE, FALSE, W_QUEEN),
                                 depth - 1, s.alpha, s.beta,
                                 ~maximizing_player, initial_turn))

\* the loop of AlphaBeta over the children lo..hi, left as soon as s.done
RECURSIVE AlphaBetaLoop(_, _, _, _, _, _, _)
AlphaBetaLoop(s, children, lo, hi, depth, maximizing_player, initial_turn) ==
    IF s.done \/ lo > hi THEN s
    ELSE IF lo = hi
    THEN AlphaBetaStep(s, children[lo], depth, maximizing_player, initial_turn)
    ELSE AlphaBetaLoop(AlphaBetaLoop(s, children, lo, (lo + hi) \div 2, depth,
                                     maximizing_player, initial_turn),
                       children, (lo + hi) \div 2 + 1, hi, depth,
                       maximizing_player, initial_turn)

\* what AlphaBeta returns when its loop ends in s
AlphaBetaReturn(s) ==
    [points |-> s.points, c |-> s.c, plies |-> s.plies, cuts |-> s.cuts]

\* AlphaBeta once CreateSubtree has returned sub
AlphaBetaOver(sub, depth, alpha, beta, maximizing_player, initial_turn) ==
    AlphaBetaReturn(
        AlphaBetaLoop([c |-> sub.c, alpha |-> alpha, beta |-> beta,
                       points |-> IF maximizing_player THEN -PosInf ELSE PosInf,
                       done |-> FALSE, plies |-> {}, cuts |-> 0],
                      sub.children, 1, Len(sub.children), depth,
                      maximizing_player, initial_turn))

AlphaBeta(c, depth, alpha, beta, maximizing_player, initial_turn) ==
    IF depth = 0
    THEN [points |-> EvaluateBoard(c, initial_turn), c |-> c,
          plies |-> {Len(c.all_game_moves)}, cuts |-> 0]
    ELSE AlphaBetaOver(CreateSubtree(c), depth, alpha, beta,
                       maximizing_player, initial_turn)

\* the call with one ply less than the difficulty
RootSearchShallow(c, difficulty) ==
    AlphaBeta(c, difficulty - 1, -AlphaInit, AlphaInit, FALSE, ~GetTurn(c))

\* the call of AlphaBeta in AlphaBetaRoot, on the Chess object after MovePiece
RootSearch(c, difficulty) ==
    AlphaBeta(c, difficulty, -AlphaInit, AlphaInit, FALSE, ~GetTurn(c))

\* the rest of a pass of the loop of AlphaBetaRoot once the call for the
\* child has returned r: max_move_score, ideal_moves, MovePieceBack
RootBack(s, node, r) ==
    [c |-> MovePieceBack(r.c, node[1], node[2], node[3], node[4]),
     max_move_score |-> Max(s.max_move_score, r.points),
     ideal_moves |-> IF r.points > s.max_move_score THEN <<node>>
                     ELSE IF r.points = s.max_move_score
                     THEN Append(s.ideal_moves, node)
                     ELSE s.ideal_moves,
     stale |-> FALSE,
     plies |-> s.plies \cup r.plies,
     cuts |-> s.cuts + r.cuts,
     scores |-> Append(s.scores, r.points)]

\* one pass of the loop of AlphaBetaRoot, for the child node; s holds the
\* Chess object, max_move_score, ideal_moves and stale, which is set when
\* the loop is left returning a key of the map just cleared
RootStep(s, node, difficulty) ==
    IF s.stale THEN s
    ELSE IF GetPiece(s.c, node[3], node[4]) = W_KING - 7 * B2I(GetTurn(s.c))
    THEN [s EXCEPT !.ideal_moves = <<node>>, !.stale = TRUE]
    ELSE RootBack(s, node,
                  RootSearch(MovePiece(s.c, node[1], node[2], node[3], node[4],
                                       FALSE, FALSE, W_QUEEN),
                             difficulty))

\* the loop of AlphaBetaRoot over the children lo..hi, left as soon as s.stale
RECURSIVE RootLoop(_, _, _, _, _)
RootLoop(s, children, lo, hi, difficulty) ==
    IF s.stale \/ lo > hi THEN s
    ELSE IF lo = hi THEN RootStep(s, children[lo], difficulty)
    ELSE RootLoop(RootLoop(s, children, lo, (lo + hi) \div 2, difficulty),
                  children, (lo + hi) \div 2 + 1, hi, difficulty)

\* what AlphaBetaRoot has when its loop ends in s
RootReturn(s, children) ==
    [ideal_moves |-> s.ideal_moves, c |-> s.c, stale |-> s.stale,
     children |-> children, plies |-> s.plies, cuts |-> s.cuts,
     scores |-> s.scores]

\* AlphaBetaRoot once CreateSubtree has returned sub
RootOver(sub, difficulty) ==
    RootReturn(RootLoop([c |-> sub.c, max_move_score |-> -PosInf,
                         ideal_moves |-> <<>>, stale |-> FALSE, plies |-> {},
                         cuts |-> 0, scores |-> <<>>],
                        sub.children, 1, Len(sub.children), difficulty),
               sub.children)

\* AlphaBetaRoot up to the random pick among ideal_moves
AlphaBetaRoot(c, difficulty) == RootOver(CreateSubtree(c), difficulty)

-----------------------------------------------------------------------------
(* Keyboard input                                                          *)

\* the two characters of each square name a player can type, and of two
\* words that name no square: a column after h and a row above 8
SquareChars ==
    [ a1 |-> <<97, 49>>, a2 |-> <<97, 50>>, a3 |-> <<97, 51>>, a4 |-> <<97,
      52>>, a5 |-> <<97, 53>>, a6 |-> <<97, 54>>, a7 |-> <<97, 55>>, a8 |->
      <<97, 56>>, b1 |-> <<98, 49>>, b2 |-> <<98, 50>>, b3 |-> <<98, 51>>,
      b4 |-> <<98, 52>>, b5 |-> <<98, 53>>, b6 |-> <<98, 54>>, b7 |-> <<98,
      55>>, b8 |-> <<98, 56>>, c1 |-> <<99, 49>>, c2 |-> <<99, 50>>, c3 |->
      <<99, 51>>, c4 |-> <<99, 52>>, c5 |-> <<99, 53>>, c6 |-> <<99, 54>>,
      c7 |-> <<99, 55>>, c8 |-> <<99, 56>>, d1 |-> <<100, 49>>, d2 |->
      <<100, 50>>, d3 |-> <<100, 51>>, d4 |-> <<100, 52>>, d5 |-> <<100,
      53>>, d6 |-> <<100, 54>>, d7 |-> <<100, 55>>, d8 |-> <<100, 56>>, e1
      |-> <<101, 49>>, e2 |-> <<101, 50>>, e3 |-> <<101, 51>>, e4 |-> <<101,
      52>>, e5 |-> <<101, 53>>, e6 |-> <<101, 54>>, e7 |-> <<101, 55>>, e8
      |-> <<101, 56>>, f1 |-> <<102, 49>>, f2 |-> <<102, 50>>, f3 |-> <<102,
      51>>, f4 |-> <<102, 52>>, f5 |-> <<102, 53>>, f6 |-> <<102, 54>>, f7
      |-> <<102, 55>>, f8 |-> <<102, 56>>, g1 |-> <<103, 49>>, g2 |-> <<103,
      50>>, g3 |-> <<103, 51>>, g4 |-> <<103, 52>>, g5 |-> <<103, 53>>, g6
      |-> <<103, 54>>, g7 |-> <<103, 55>>, g8 |-> <<103, 56>>, h1 |-> <<104,
      49>>, h2 |-> <<104, 50>>, h3 |-> <<104, 51>>, h4 |-> <<104, 52>>, h5
      |-> <<104, 53>>, h6 |-> <<104, 54>>, h7 |-> <<104, 55>>, h8 |-> <<104,
      56>>, i1 |-> <<105, 49>>, a9 |-> <<97, 57>> ]

SquareNames == DOMAIN SquareChars

\* the keys ManuallyPromotePawn accepts: r, k, b, q
PromotionKeys == {W_ROOK, W_KNIGHT, W_BISHOP, W_QUEEN}

-----------------------------------------------------------------------------
(* The games typed at the keyboard.  Every move of a tape is accepted only *)
(* if AllMoves lists it, so every position is reached by legal play from   *)
(* the starting position.                                                  *)

\* both wings of both sides are cleared
TapeBothWings ==
    <<<<"d2", "d4">>, <<"d7", "d5">>, <<"b1", "c3">>, <<"b8", "c6">>,
      <<"c1", "f4">>, <<"c8", "f5">>, <<"d1", "d2">>, <<"d8", "d7">>,
      <<"e2", "e3">>, <<"e7", "e6">>, <<"f1", "d3">>, <<"f8", "d6">>,
      <<"g1", "f3">>, <<"g8", "f6">>>>

\* white's king side is cleared first
TapeKingside ==
    <<<<"e2", "e4">>, <<"e7", "e5">>, <<"g1", "f3">>, <<"b8", "c6">>,
      <<"f1", "c4">>, <<"f8", "c5">>>>

\* the shortest mate
TapeFoolsMate ==
    <<<<"f2", "f3">>, <<"e7", "e5">>, <<"g2", "g4">>, <<"d8", "h4">>>>

\* a double step beside an enemy pawn, then two more moves
TapeEnPassant ==
    <<<<"e2", "e4">>, <<"a7", "a6">>, <<"e4", "e5">>, <<"d7", "d5">>,
      <<"h2", "h3">>, <<"d5", "d4">>>>

\* the knights go out and home twice, and out again
TapeThreefold ==
    <<<<"g1", "f3">>, <<"g8", "f6">>, <<"f3", "g1">>, <<"f6", "g8">>,
      <<"g1", "f3">>, <<"g8", "f6">>, <<"f3", "g1">>, <<"f6", "g8">>,
      <<"g1", "f3">>>>

\* a pawn reaches the last rank with a capture
TapePromotion ==
    <<<<"a2", "a4">>, <<"b7", "b5">>, <<"a4", "b5">>, <<"a7", "a6">>,
      <<"b5", "a6">>, <<"c8", "b7">>, <<"a6", "b7">>, <<"b8", "c6">>,
      <<"b7", "a8">>>>

\* a check while the king side is clear
TapeCheck ==
    <<<<"d2", "d4">>, <<"e7", "e6">>, <<"g1", "f3">>, <<"d7", "d5">>,
      <<"e2", "e3">>, <<"g8", "f6">>, <<"f1", "d3">>, <<"f8", "b4">>>>

\* fifty plies of knights and rooks, no position three times
TapeFifty ==
    <<<<"b1", "c3">>, <<"b8", "c6">>, <<"a1", "b1">>, <<"a8", "b8">>,
      <<"c3", "a4">>, <<"c6", "b4">>, <<"a4", "b6">>, <<"b8", "a8">>,
      <<"b6", "a4">>, <<"b4", "a6">>, <<"a4", "c5">>, <<"a8", "b8">>,
      <<"b1", "a1">>, <<"a6", "b4">>, <<"c5", "e6">>, <<"b4", "a6">>,
      <<"a1", "b1">>, <<"a6", "b4">>, <<"e6", "f4">>, <<"b4", "c6">>,
      <<"f4", "h3">>, <<"b8", "a8">>, <<"b1", "a1">>, <<"c6", "b8">>,
      <<"a1", "b1">>, <<"b8", "a6">>, <<"h3", "f4">>, <<"a6", "b8">>,
      <<"f4", "d5">>, <<"b8", "c6">>, <<"d5", "f4">>, <<"c6", "b8">>,
      <<"f4", "g6">>, <<"b8", "a6">>, <<"g6", "h4">>, <<"a6", "b8">>,
      <<"b1", "a1">>, <<"b8", "c6">>, <<"h4", "f5">>, <<"c6", "b8">>,
      <<"f5", "g3">>, <<"b8", "c6">>, <<"g3", "e4">>, <<"c6", "b8">>,
      <<"e4", "g5">>, <<"b8", "c6">>, <<"g5", "e6">>, <<"c6", "a5">>,
      <<"e6", "c5">>, <<"a5", "c4">>>>

\* nineteen plies after which black, not in check, has no move
TapeStalemate ==
    <<<<"e2", "e3">>, <<"a7", "a5">>, <<"d1", "h5">>, <<"a8", "a6">>,
      <<"h5", "a5">>, <<"h7", "h5">>, <<"h2", "h4">>, <<"a6", "h6">>,
      <<"a5", "c7">>, <<"f7", "f6">>, <<"c7", "d7">>, <<"e8", "f7">>,
      <<"d7", "b7">>, <<"d8", "d3">>, <<"b7", "b8">>, <<"d3", "h7">>,
      <<"b8", "c8">>, <<"f7", "g6">>, <<"c8", "e6">>>>

\* the white knight goes out and home while the black rook goes to b8 and
\* back: the board after the third, seventh and eleventh move is the same
TapeRookShuffle ==
    <<<<"g1", "f3">>, <<"b8", "c6">>, <<"f3", "g1">>, <<"a8", "b8">>,
      <<"g1", "f3">>, <<"b8", "a8">>, <<"f3", "g1">>, <<"a8", "b8">>,
      <<"g1", "f3">>, <<"b8", "a8">>, <<"f3", "g1">>>>

\* the white queen clears the king's side and the white king walks to g8
TapeKingWalk ==
    <<<<"e2", "e4">>, <<"b8", "a6">>, <<"d1", "h5">>, <<"a6", "b8">>,
      <<"h5", "h7">>, <<"b8", "a6">>, <<"h7", "g8">>, <<"a6", "b8">>,
      <<"g8", "h8">>, <<"b8", "a6">>, <<"h8", "g7">>, <<"a6", "b8">>,
      <<"e1", "e2">>, <<"b8", "a6">>, <<"e2", "f3">>, <<"a6", "b8">>,
      <<"f3", "g4">>, <<"b8", "a6">>, <<"g4", "h5">>, <<"a6", "b8">>,
      <<"h5", "h6">>, <<"b8", "a6">>, <<"h6", "h7">>, <<"a6", "b8">>,
      <<"h7", "g8">>>>

\* a mate given by a capture
TapeScholarsMate ==
    <<<<"e2", "e4">>, <<"e7", "e5">>, <<"d1", "h5">>, <<"b8", "c6">>,
      <<"f1", "c4">>, <<"g8", "f6">>, <<"h5", "f7">>>>

Tapes ==
    <<TapeBothWings, TapeKingside, TapeFoolsMate, TapeEnPassant,
      TapeThreefold, TapePromotion, TapeCheck, TapeFifty, TapeStalemate,
      TapeRookShuffle, TapeKingWalk, TapeScholarsMate>>

\* the person's moves of a game against the bot that takes the king-side
\* pieces off the home rank at once
HumanKingside == <<<<"e2", "e4">>, <<"g1", "f3">>, <<"f1", "c4">>>>

\* the person's moves of a game against the bot in which the bot ends up
\* with a choice between a mate and a stalemate
HumanLosing ==
    <<<<"g2", "g4">>, <<"c2", "c4">>, <<"h2", "h3">>, <<"g1", "f3">>,
      <<"d2", "d3">>, <<"b1", "d2">>, <<"b2", "b4">>, <<"e1", "d1">>,
      <<"d2", "e4">>, <<"c1", "a3">>, <<"d1", "c1">>, <<"c1", "d2">>,
      <<"c4", "c5">>, <<"h3", "h4">>, <<"d2", "d1">>, <<"f1", "e2">>,
      <<"d1", "c2">>, <<"c2", "c3">>, <<"a1", "e1">>, <<"a2", "a4">>>>

\* the person's first move of a game against the bot of difficulty 2
HumanOpening == <<<<"e2", "e4">>>>

SearchTapes == <<HumanKingside, HumanLosing, HumanOpening>>

\* the difficulty entered for the bot of each of these games
SearchDifficulty == <<1, 1, 2>>

\* the moves two random bots make while the generator follows a tape
RandomTapes == <<TapePromotion, TapeFoolsMate, TapeEnPassant>>

\* how many moves a player may type after the tape has run out
MaxFree == 1

-----------------------------------------------------------------------------
(* State machine                                                           *)

NewPlayer(difficulty) == [score |-> 0, castling |-> TRUE, difficulty |-> difficulty]

\* Chess::Chess with the arguments main passes
NewChess(difficulty1, difficulty2) ==
    [board |-> STARTING_BOARD,
     white |-> NewPlayer(difficulty1),
     black |-> NewPlayer(difficulty2),
     all_game_moves |-> <<>>,
     whites_turn |-> TRUE,
     moves_after_last_pawn_move_or_capture |-> 0,
     white_bot_random |-> FALSE,
     black_bot_random |-> FALSE]

\* what the bytes around the board may hold: nothing a probe looks for, or
\* the pawn code the pawn probe of IsCheck compares with
StrayChoices == {[lo |-> EMPTY, hi |-> EMPTY], [lo |-> B_PAWN, hi |-> W_PAWN]}

\* the file of the double pawn step just made beside an enemy pawn, or -1
EnPassantFile(c) ==
    IF c.all_game_moves = <<>> THEN -1
    ELSE IF Back(c).first # NORMAL THEN -1
    ELSE LET m == ChangeToRealCoordinates(Back(c).second)
         IN  IF /\ Chr(Back(c), 4) \in {W_PAWN, B_PAWN}
                /\ Abs(m[4] - m[2]) = 2
                /\ \E d \in {-1, 1} :
                      /\ WithinBounds(m[3] + d)
                      /\ Cell(c.board, m[4], m[3] + d) = -Chr(Back(c), 4) + 5
             THEN m[3] ELSE -1

\* what makes two positions the same one: squares, castling rights, en passant
PositionKey(c) ==
    <<c.board, c.white.castling, c.black.castling, EnPassantFile(c)>>

\* the record kept beside the program for stating the properties: the last
\* turn's position, list, move and intermediate results, what a search left
\* and chose from, every position of the game so far, the index pairs
\* the IsCheck call of the last PlayersTurn read, and whether the last input
\* was turned down and on which Chess object it was read
NewGhost(c) ==
    [applied |-> 0, before |-> c, listed |-> <<>>, move |-> <<0, 0, 0, 0>>,
     moved |-> c, replies |-> <<>>, history |-> <<PositionKey(c)>>,
     searched |-> FALSE, found |-> c, ideal |-> <<>>, probes |-> {},
     rejected |-> FALSE, read |-> c, lost |-> {}, had |-> {},
     over |-> <<>>, plies |-> {}, cuts |-> 0, scores |-> <<>>]

\* game mode 2 of main: two persons
Init ==
    /\ chess = NewChess(1, 1)
    /\ stray \in StrayChoices
    /\ bots = {}
    /\ tape \in 1..Len(Tapes)
    /\ typed = 0
    /\ free = 0
    /\ outcome = ONGOING
    /\ pending = <<>>
    /\ random = W_QUEEN
    /\ ghost = NewGhost(NewChess(1, 1))

\* game mode 1 of main, the person playing white against the bot of the
\* difficulty entered
InitSearch ==
    /\ tape \in 1..Len(SearchTapes)
    /\ chess = NewChess(1, SearchDifficulty[tape])
    /\ stray \in StrayChoices
    /\ bots = {"black"}
    /\ typed = 0
    /\ free = MaxFree
    /\ outcome = ONGOING
    /\ pending = <<>>
    /\ random = W_QUEEN
    /\ ghost = NewGhost(NewChess(1, SearchDifficulty[tape]))

\* Reset that leaves the fifty-move counter as it is
ResetKeepsCounter(c) ==
    [c EXCEPT !.board = STARTING_BOARD,
              !.white.score = 0, !.white.castling = TRUE,
              !.black.score = 0, !.black.castling = TRUE,
              !.all_game_moves = <<>>,
              !.whites_turn = TRUE]

\* GetRandomNumber(min, max): any number from min to max
GetRandomNumber(min, max) == min..max

\* two random bots: Chess constructed with white_bot_random and
\* black_bot_random true, BotsTurn called for both colours
InitRandom ==
    /\ chess = [NewChess(1, 1) EXCEPT !.white_bot_random = TRUE,
                                      !.black_bot_random = TRUE]
    /\ stray \in StrayChoices
    /\ bots = {"white", "black"}
    /\ tape \in 1..Len(RandomTapes)
    /\ typed = 0
    /\ free = 0
    /\ outcome = ONGOING
    /\ pending = <<>>
    /\ random \in GetRandomNumber(2, 5)
    /\ ghost = NewGhost([NewChess(1, 1) EXCEPT !.white_bot_random = TRUE,
                                               !.black_bot_random = TRUE])

\* Chess::Reset
Reset(c) ==
    [c EXCEPT !.board = STARTING_BOARD,
              !.white.score = 0, !.white.castling = TRUE,
              !.black.score = 0, !.black.castling = TRUE,
              !.all_game_moves = <<>>,
              !.whites_turn = TRUE,
              !.moves_after_last_pawn_move_or_capture = 0]

\* is the pawn move (x1, y1) -> (x2, y2) one MovePiece promotes
IsPromotion(c, x1, y1, x2, y2) ==
    /\ Cell(c.board, y1, x1) \in {W_PAWN, B_PAWN}
    /\ y2 = (BOARD_SIZE - 1) * B2I(~c.whites_turn)

\* the moves the person at the keyboard has been given to type
Script ==
    IF bots = {} THEN Tapes[tape]
    ELSE IF bots = {"black"} THEN SearchTapes[tape] ELSE RandomTapes[tape]

\* the squares a player may type next: the tape's move, then anything
TypedFrom == IF typed < Len(Script) THEN {Script[typed + 1][1]} ELSE SquareNames

TypedTo == IF typed < Len(Script) THEN {Script[typed + 1][2]} ELSE SquareNames

\* the loops of main: whose turn the next call is
BotToMove == (IF chess.whites_turn THEN "white" ELSE "black") \in bots

\* the player whose castling flag MovePiece clears for the move r: the
\* mover, when the piece on the source square is a king or a rook
Forfeits(c, r) ==
    IF Cell(c.board, r[2], r[1]) \in {W_KING, B_KING, W_ROOK, B_ROOK}
    THEN {IF c.whites_turn THEN "white" ELSE "black"}
    ELSE {}

\* the part of a turn after the move is chosen: MovePiece, then CheckEndgame
Commit(c0, am, r, manual_promotion, pick, search) ==
    \E moved \in {MovePiece(am.c, r[1], r[2], r[3], r[4], manual_promotion, TRUE, pick)} :
      \E e \in {CheckEndgame(moved)} :
         /\ chess' = e.c
         /\ outcome' = e.outcome
         /\ ghost' = [applied |-> ghost.applied + 1,
                      before |-> c0,
                      listed |-> am.moves,
                      move |-> r,
                      moved |-> moved,
                      replies |-> e.all_moves,
                      history |-> Append(ghost.history, PositionKey(e.c)),
                      searched |-> search.searched,
                      found |-> am.c,
                      ideal |-> search.ideal,
                      probes |-> search.probes,
                      rejected |-> FALSE,
                      read |-> am.c,
                      lost |-> ghost.lost \cup Forfeits(am.c, r),
                      had |-> ghost.lost,
                      over |-> <<>>,
                      plies |-> search.plies,
                      cuts |-> search.cuts,
                      scores |-> search.scores]

\* CanMovePiece that finds every move in every list
CanMovePieceAny(x1, y1, x2, y2, all_moves) == TRUE

\* CanMovePiece: std::find of the move in the list
CanMovePiece(x1, y1, x2, y2, all_moves) ==
    \E n \in 1..Len(all_moves) : all_moves[n] = ToString(x1, y1, x2, y2)

\* the two tests of PlayersTurn on the coordinates read
CanSubmit(r, all_moves) ==
    /\ (r[1] # r[3] \/ r[2] # r[4])
    /\ WithinBounds(r[1]) /\ WithinBounds(r[2])
    /\ WithinBounds(r[3]) /\ WithinBounds(r[4])
    /\ CanMovePiece(r[1], r[2], r[3], r[4], all_moves)

\* the part of PlayersTurn after the input is read: if it passes the tests
\* the move is made and the endgame checked; otherwise the loop goes round
\* and the same call, with the same list, waits for the next input
Submit(c0, am, r, pick) ==
    IF CanSubmit(r, am.moves)
    THEN /\ (pick = W_QUEEN \/ IsPromotion(am.c, r[1], r[2], r[3], r[4]))
         /\ Commit(c0, am, r, TRUE, pick,
                   [searched |-> FALSE, ideal |-> <<>>, plies |-> {},
                    cuts |-> 0, scores |-> <<>>,
                    probes |-> IsCheckReads(am.c.board, am.c.whites_turn)])
         /\ pending' = <<>>
    ELSE /\ pick = W_QUEEN
         /\ chess' = am.c
         /\ outcome' = outcome
         /\ pending' = <<am.moves>>
         /\ ghost' = [ghost EXCEPT !.rejected = TRUE, !.read = am.c]

\* the first word a player may type next: a square, or quit (exit does the
\* same) once the tape has run out
TypedWord == IF typed < Len(Script) THEN {"square"} ELSE {"square", "quit"}

\* the list of the call: AllMoves on entry, the local all_moves afterwards
Listed(c) ==
    IF pending = <<>> THEN AllMoves(c) ELSE [moves |-> pending[1], c |-> c]

\* PlayersTurn, one input at a time: on entry the legal moves are listed;
\* then the input is read: quit ends the game through EndGameText, a pair
\* of words goes on to the tests and the move
PlayersTurn ==
    /\ outcome = ONGOING
    /\ ~BotToMove
    /\ typed < Len(Script) \/ free < MaxFree
    /\ \E c \in {chess} : \E am \in {Listed(c)} : \E word \in TypedWord :
         IF word = "quit"
         THEN /\ chess' = am.c
              /\ outcome' = QUIT
              /\ pending' = <<>>
              /\ ghost' = [ghost EXCEPT !.rejected = FALSE, !.read = ghost.found]
         ELSE \E from \in TypedFrom, to \in TypedTo, pick \in PromotionKeys :
                 Submit(c, am,
                        ChangeToRealCoordinates(SquareChars[from] \o SquareChars[to]),
                        pick)
    /\ typed' = IF typed < Len(Script) THEN typed + 1 ELSE typed
    /\ free' = IF typed < Len(Script) THEN free ELSE free + 1
    /\ UNCHANGED <<stray, bots, tape, random>>

\* every string of four coordinates
AnyKey ==
    {<<x1, y1, x2, y2>> : x1 \in 0..(BOARD_SIZE - 1), y1 \in 0..(BOARD_SIZE - 1),
                          x2 \in 0..(BOARD_SIZE - 1), y2 \in 0..(BOARD_SIZE - 1)}

\* GetRandomMove on the list all_moves: the move at the index the generator
\* returns, in real coordinates; while the tape lasts the generator returns
\* the index of the tape's move
GetRandomMove(all_moves) ==
    {ChangeToRealCoordinates(all_moves[n]) : n \in 1..Len(all_moves)}
    \cap (IF typed < Len(Script)
          THEN {ChangeToRealCoordinates(SquareChars[Script[typed + 1][1]]
                                        \o SquareChars[Script[typed + 1][2]])}
          ELSE AnyKey)

\* BotsTurn: GetRandomMove for a random bot, or the search and the random
\* pick among ideal_moves (a key read from the cleared map may be anything);
\* then MovePiece and CheckEndgame
BotsTurn ==
    /\ outcome = ONGOING
    /\ BotToMove
    /\ \E c \in {chess} :
         IF (IF c.whites_turn THEN c.white_bot_random ELSE c.black_bot_random)
         THEN /\ typed < Len(Script) \/ free < MaxFree
              /\ \E am \in {AllMoves(c)} : \E move \in GetRandomMove(am.moves) :
                    Commit(c, am, move, FALSE, W_QUEEN,
                           [searched |-> FALSE, ideal |-> <<>>, probes |-> {},
                            plies |-> {}, cuts |-> 0, scores |-> <<>>])
              /\ typed' = IF typed < Len(Script) THEN typed + 1 ELSE typed
              /\ free' = IF typed < Len(Script) THEN free ELSE free + 1
         ELSE /\ \E r \in {AlphaBetaRoot(c, GetCurrentPlayerConst(c).difficulty)} :
                    \E move \in (IF r.stale THEN AnyKey
                                 ELSE {r.ideal_moves[n] : n \in 1..Len(r.ideal_moves)}) :
                       Commit(c, [c |-> r.c,
                                  moves |-> [n \in 1..Len(r.children) |->
                                               ChangeToString(r.children[n])]],
                              move, FALSE, W_QUEEN,
                              [searched |-> TRUE, ideal |-> r.ideal_moves,
                               probes |-> {},
                               cuts |-> r.cuts, scores |-> r.scores,
                               plies |-> {p - Len(c.all_game_moves) : p \in r.plies}])
              /\ UNCHANGED <<typed, free>>
    /\ UNCHANGED <<stray, bots, tape, pending, random>>

\* GameOver with the key r: a new game on the same object
GameOver ==
    /\ outcome # ONGOING
    /\ \E c \in {Reset(chess)} :
         /\ chess' = c
         /\ ghost' = [NewGhost(c) EXCEPT !.over = <<chess>>]
    /\ outcome' = ONGOING
    /\ UNCHANGED <<stray, bots, tape, typed, free, pending, random>>

Next == PlayersTurn \/ GameOver

Spec == Init /\ [][Next]_vars

NextSearch == PlayersTurn \/ BotsTurn \/ GameOver

SpecSearch == InitSearch /\ [][NextSearch]_vars

NextRandom == BotsTurn \/ GameOver

SpecRandom == InitRandom /\ [][NextRandom]_vars

-----------------------------------------------------------------------------
(* Properties                                                              *)

\* what a look-ahead must leave as it found it
Frame(c) ==
    <<c.board, c.whites_turn, c.white.castling, c.black.castling, c.all_game_moves>>

\* MovePiece(move, false, false) followed by MovePieceBack(move)
RoundTrip(c, move) ==
    LET r == ChangeToRealCoordinates(move)
    IN  MovePieceBack(MovePiece(c, r[1], r[2], r[3], r[4], FALSE, FALSE, W_QUEEN),
                      r[1], r[2], r[3], r[4])

\* C1: in the position a committed move produced, and in the position a turn
\* started from, applying and undoing any move AllMoves returned for it leaves
\* the 64 squares, the side to move, both castling flags and the log as they were
C1_RoundTripRestores ==
    ghost.applied > 0 =>
        /\ \A n \in 1..Len(ghost.replies) :
              Frame(RoundTrip(ghost.moved, ghost.replies[n])) = Frame(ghost.moved)
        /\ \A n \in 1..Len(ghost.listed) :
              Frame(RoundTrip(ghost.before, ghost.listed[n])) = Frame(ghost.before)

\* the rules of movement, stated on the squares alone -------------------------

At(b, x, y) == b[BOARD_SIZE * y + x + 1]

Sgn(n) == IF n > 0 THEN 1 ELSE IF n < 0 THEN -1 ELSE 0

\* every square strictly between (x, y) and (kx, ky) on their common line is empty
ClearBetween(b, x, y, kx, ky) ==
    \A k \in 1..(Max(Abs(kx - x), Abs(ky - y)) - 1) :
        At(b, x + k * Sgn(kx - x), y + k * Sgn(ky - y)) = EMPTY

\* the piece on (x, y) attacks the square (kx, ky)
Attacks(b, x, y, kx, ky) ==
    LET p == At(b, x, y)
        dx == kx - x
        dy == ky - y
        straight == (dx = 0) # (dy = 0)
        diagonal == Abs(dx) = Abs(dy) /\ dx # 0
    IN  CASE p = W_PAWN -> dy = -1 /\ Abs(dx) = 1
          [] p = B_PAWN -> dy = 1 /\ Abs(dx) = 1
          [] p \in {W_KNIGHT, B_KNIGHT} -> {Abs(dx), Abs(dy)} = {1, 2}
          [] p \in {W_KING, B_KING} -> Max(Abs(dx), Abs(dy)) = 1
          [] p \in {W_ROOK, B_ROOK} -> straight /\ ClearBetween(b, x, y, kx, ky)
          [] p \in {W_BISHOP, B_BISHOP} -> diagonal /\ ClearBetween(b, x, y, kx, ky)
          [] p \in {W_QUEEN, B_QUEEN} ->
               (straight \/ diagonal) /\ ClearBetween(b, x, y, kx, ky)
          [] OTHER -> FALSE

\* the king of the side `turn` (TRUE for white) is attacked by an enemy piece
Attacked(b, turn) ==
    \E kx \in 0..(BOARD_SIZE - 1), ky \in 0..(BOARD_SIZE - 1) :
        /\ At(b, kx, ky) = (IF turn THEN W_KING ELSE B_KING)
        /\ \E x \in 0..(BOARD_SIZE - 1), y \in 0..(BOARD_SIZE - 1) :
              /\ IsEnemy(turn, At(b, x, y))
              /\ Attacks(b, x, y, kx, ky)

\* MovePiece(move, false, true) on the position c
Applied(c, move) ==
    LET r == ChangeToRealCoordinates(move)
    IN  MovePiece(c, r[1], r[2], r[3], r[4], FALSE, TRUE, W_QUEEN)

Has(list, move) == \E n \in 1..Len(list) : list[n] = move

\* C3: no move AllMoves returned, for the position a committed move produced
\* or for the position a turn started from, leaves the mover's own king
\* attacked once it is applied, be it to the position as it was before the
\* call or as the call left it
C3_NoSelfCheck ==
    ghost.applied > 0 =>
        /\ \A n \in 1..Len(ghost.replies) :
              /\ ~Attacked(Applied(ghost.moved, ghost.replies[n]).board,
                           ghost.moved.whites_turn)
              /\ ~Attacked(Applied(chess, ghost.replies[n]).board, chess.whites_turn)
        /\ \A n \in 1..Len(ghost.listed) :
              ~Attacked(Applied(ghost.before, ghost.listed[n]).board,
                        ghost.before.whites_turn)

\* a committed move has left the side to move in check with a way out: the
\* filter of AllMoves had candidates to drop
C3_Witness ==
    /\ ghost.applied > 0
    /\ outcome = ONGOING
    /\ Attacked(chess.board, chess.whites_turn)
    /\ Len(ghost.replies) > 0
    /\ Len(ghost.replies) < Len(Generate(ghost.moved, <<>>, 0, BOARD_SIZE * BOARD_SIZE - 1))

\* the home rank of the side to move
HomeLine(c) == (BOARD_SIZE - 1) * B2I(c.whites_turn)

\* the conditions of castling toward the file wing (2 or 6)
WingReady(c, wing) ==
    LET line == HomeLine(c)
        rook == IF c.whites_turn THEN W_ROOK ELSE B_ROOK
    IN  /\ GetCurrentPlayerConst(c).castling
        /\ ~Attacked(c.board, c.whites_turn)
        /\ At(c.board, IF wing = 2 THEN 0 ELSE BOARD_SIZE - 1, line) = rook
        /\ \A x \in (IF wing = 2 THEN 1..3 ELSE 5..6) : At(c.board, x, line) = EMPTY

CastlingMove(c, wing) == ToString(4, HomeLine(c), wing, HomeLine(c))

\* C4: for each wing on its own, KingMoves emits the castling move whenever
\* the conditions of that wing hold
C4_EachWingOffered ==
    \A wing \in {2, 6} :
        /\ WingReady(chess, wing) =>
              Has(KingMoves(chess, 4, HomeLine(chess)), CastlingMove(chess, wing))
        /\ WingReady(ghost.moved, wing) =>
              Has(KingMoves(ghost.moved, 4, HomeLine(ghost.moved)),
                  CastlingMove(ghost.moved, wing))

\* C5: KingMoves emits a castling move only if the flag is true, the king is
\* not in check, the rook is on its corner and the squares between are empty
C5_CastlingOnlyIfReady ==
    \A wing \in {2, 6} :
        /\ Has(KingMoves(chess, 4, HomeLine(chess)), CastlingMove(chess, wing))
              => WingReady(chess, wing)
        /\ Has(KingMoves(ghost.moved, 4, HomeLine(ghost.moved)),
               CastlingMove(ghost.moved, wing))
              => WingReady(ghost.moved, wing)

\* a castling move is emitted for the position a committed move produced
C5_Witness ==
    /\ ghost.applied > 0
    /\ \E wing \in {2, 6} :
          Has(KingMoves(ghost.moved, 4, HomeLine(ghost.moved)),
              CastlingMove(ghost.moved, wing))

\* the last move of the log is a two-square pawn advance landing on (x, y)
DoubleStepOnto(c, x, y) ==
    /\ c.all_game_moves # <<>>
    /\ Back(c).first = NORMAL
    /\ Chr(Back(c), 4) = (IF c.whites_turn THEN B_PAWN ELSE W_PAWN)
    /\ LET m == ChangeToRealCoordinates(Back(c).second)
       IN  m[3] = x /\ m[4] = y /\ m[1] = x /\ Abs(m[4] - m[2]) = 2

\* PawnMoves lists, for the pawn on (x, y), the capture onto the empty square
\* diagonally ahead on the file x + d
EnPassantListed(c, x, y, d) ==
    LET inc == IF c.whites_turn THEN -1 ELSE 1
    IN  /\ WithinBounds(x + d) /\ WithinBounds(y + inc)
        /\ At(c.board, x + d, y + inc) = EMPTY
        /\ Has(PawnMoves(c, x, y), ToString(x, y, x + d, y + inc))

\* C8: a pawn of the side to move is given the en-passant capture onto the
\* file beside it exactly when the last move of the log is the two-square
\* advance of an enemy pawn that landed beside it: as soon as another move
\* is the last one the capture is gone
C8_EnPassantOnlyAtOnce ==
    \A x \in 0..(BOARD_SIZE - 1), y \in 1..(BOARD_SIZE - 2), d \in {-1, 1} :
        At(chess.board, x, y) = (IF chess.whites_turn THEN W_PAWN ELSE B_PAWN)
        => (EnPassantListed(chess, x, y, d) <=> DoubleStepOnto(chess, x + d, y))

\* the en-passant capture is listed
C8_Witness ==
    \E x \in 0..(BOARD_SIZE - 1), y \in 1..(BOARD_SIZE - 2), d \in {-1, 1} :
        /\ At(chess.board, x, y) = (IF chess.whites_turn THEN W_PAWN ELSE B_PAWN)
        /\ DoubleStepOnto(chess, x + d, y)
        /\ EnPassantListed(chess, x, y, d)

\* the number of listed moves that start from a square holding the piece p
MovesOf(c, list, p) ==
    Cardinality({n \in 1..Len(list) :
                   LET r == ChangeToRealCoordinates(list[n])
                   IN  At(c.board, r[1], r[2]) = p})

\* C9: from the standard starting position with white to move AllMoves
\* returns 20 moves, 16 of pawns and 4 of knights, none of them castling
C9_TwentyOpeningMoves ==
    (ghost.applied > 0 /\ ghost.before.board = STARTING_BOARD
                       /\ ghost.before.whites_turn)
    => /\ Len(ghost.listed) = 20
       /\ MovesOf(ghost.before, ghost.listed, W_PAWN) = 16
       /\ MovesOf(ghost.before, ghost.listed, W_KNIGHT) = 4
       /\ MovesOf(ghost.before, ghost.listed, W_KING) = 0

\* the first turn of a game has listed the moves of the starting position
C9_Witness ==
    /\ ghost.applied = 1
    /\ ghost.before.board = STARTING_BOARD
    /\ ghost.before.whites_turn
    /\ Len(ghost.listed) = 20

\* how often the position just reached has occurred in the game, the
\* position before the first move included
Occurrences ==
    Cardinality({k \in 1..Len(ghost.history) :
                   ghost.history[k] = ghost.history[Len(ghost.history)]})

\* C6: after a committed move that ends the game neither by checkmate nor by
\* the fifty-move rule, the threefold draw is reported exactly when the
\* position has occurred three times since the start of the game
C6_ThreefoldOnThird ==
    (ghost.applied > 0 /\ outcome # CHECKMATE /\ outcome # FIFTY_MOVES)
    => ((outcome = THREEFOLD_REP) <=> (Occurrences >= 3))

\* the committed move was made by a pawn or took a piece
PawnMoveOrCapture ==
    \/ At(ghost.before.board, ghost.move[1], ghost.move[2]) \in {W_PAWN, B_PAWN}
    \/ At(ghost.before.board, ghost.move[3], ghost.move[4]) # EMPTY

\* the fifty-move counter is as the rule of C7 demands after the last move
CounterFollowsRule ==
    /\ chess.moves_after_last_pawn_move_or_capture
         = (IF PawnMoveOrCapture THEN 0
            ELSE ghost.before.moves_after_last_pawn_move_or_capture + 1)
    /\ (outcome = FIFTY_MOVES)
         <=> (chess.moves_after_last_pawn_move_or_capture = FiftyLimit)

\* C7 as stated: after every committed move the counter is 0 if a pawn moved
\* or a piece was taken and one more than before otherwise, and the
\* fifty-move draw is reported exactly when it is 50
C7_CounterEveryMove == ghost.applied > 0 => CounterFollowsRule

\* the committed move took the piece that stood on the square it went to
TookPiece == At(ghost.found.board, ghost.move[3], ghost.move[4]) # EMPTY

\* C7 amended: the rule holds after every committed move that leaves the
\* side to move a legal move; after a move that leaves none the game ends as
\* a checkmate and CheckEndgame does not touch the counter, which is 0 if
\* the move took a piece and as it was before the move otherwise
C7_CounterUnlessNoReply ==
    ghost.applied > 0 =>
        IF ghost.replies # <<>> THEN CounterFollowsRule
        ELSE /\ outcome = CHECKMATE
             /\ chess.moves_after_last_pawn_move_or_capture
                  = (IF TookPiece THEN 0
                     ELSE ghost.before.moves_after_last_pawn_move_or_capture)

\* the fiftieth quiet ply in a row has been committed and the draw reported
C7_Witness ==
    /\ ghost.applied > 0
    /\ ~PawnMoveOrCapture
    /\ ghost.before.moves_after_last_pawn_move_or_capture = FiftyLimit - 1
    /\ outcome = FIFTY_MOVES

\* what a search must leave as it found it
SearchFrame(c) ==
    <<Frame(c), c.white.score, c.black.score,
      c.moves_after_last_pawn_move_or_capture,
      c.white.difficulty, c.black.difficulty>>

\* C2: when AlphaBetaRoot has returned, the board, the side to move, both
\* castling flags, the log, both scores, the fifty-move counter and the
\* stored difficulty are what they were when the search was started
C2_SearchLeavesNoTrace ==
    (ghost.searched /\ ghost.listed # <<>>)
    => SearchFrame(ghost.found) = SearchFrame(ghost.before)

\* the move number n of the last turn's list, made in the position the turn
\* started from, leaves the opponent in check with no legal move
Mates(n) ==
    LET r == ChangeToRealCoordinates(ghost.listed[n])
        after == MovePiece(ghost.before, r[1], r[2], r[3], r[4], FALSE, FALSE, W_QUEEN)
    IN  /\ IsCheck(after.board, after.whites_turn)
        /\ AllMoves(after).moves = <<>>

\* C10: with difficulty 1, if exactly one legal move of the root position
\* leaves the opponent in check with no legal move, that move is the one the
\* search returned
C10_MateInOneReturned ==
    (ghost.searched /\ GetCurrentPlayerConst(ghost.before).difficulty = 1)
    => \A n \in 1..Len(ghost.listed) :
          (Mates(n) /\ \A k \in 1..Len(ghost.listed) : Mates(k) => k = n)
          => ghost.move = ChangeToRealCoordinates(ghost.listed[n])

\* C11: a piece lookup with a coordinate outside 0..7 never returns a value
\* to its caller (it ends the process instead); so of the lookups made by a
\* call of IsCheck that returned and let the turn go on, none has an index
\* outside 0..7.
C11_NoLookupOutsideBoard ==
    \A p \in ghost.probes : WithinBounds(p[1]) /\ WithinBounds(p[2])

\* C12: a move submitted in PlayersTurn is applied only if from differs from
\* to, the four coordinates are within 0..7 and the list of the position has
\* the move; after any other submission no move has been made: board, side
\* to move, castling flags, log, scores and counter are as they were when the
\* input was read, the game goes on and the same call waits for the same
\* player.
C12_OnlyListedMovesApplied ==
    /\ (ghost.applied > 0 /\ ~ghost.searched /\ ~ghost.rejected)
       => /\ (ghost.move[1] # ghost.move[3] \/ ghost.move[2] # ghost.move[4])
          /\ \A i \in 1..4 : ghost.move[i] \in 0..(BOARD_SIZE - 1)
          /\ \E n \in 1..Len(ghost.listed) :
                ChangeToRealCoordinates(ghost.listed[n]) = ghost.move
          /\ Len(ghost.moved.all_game_moves) = Len(ghost.read.all_game_moves) + 1
    /\ ghost.rejected
       => /\ SearchFrame(chess) = SearchFrame(ghost.read)
          /\ outcome = ONGOING
          /\ pending # <<>>
          /\ ~BotToMove

\* a submission has been turned down after moves were made, and the player
\* is asked again
C12_Witness ==
    ghost.rejected /\ ghost.applied > 0 /\ pending # <<>>

\* MovePiece counted the move: one more log entry, the other side to move
Counts(c, d) ==
    /\ Len(d.all_game_moves) = Len(c.all_game_moves) + 1
    /\ d.whites_turn = ~c.whites_turn

\* MovePieceBack took the count back
Uncounts(c, d) ==
    /\ Len(d.all_game_moves) = Len(c.all_game_moves)
    /\ d.whites_turn = c.whites_turn

\* C13: the log is as long as the number of moves committed since the game
\* began, white is to move exactly when that length is even, the committed
\* MovePiece added one entry and flipped the side to move, and for every
\* reply AllMoves listed afterwards MovePiece adds one entry and flips the
\* side once and MovePieceBack takes both back
C13_LogLengthAndTurn ==
    /\ Len(ghost.moved.all_game_moves) = ghost.applied
    /\ Len(chess.all_game_moves) = ghost.applied
    /\ chess.whites_turn = (Len(chess.all_game_moves) % 2 = 0)
    /\ ghost.applied > 0 =>
          /\ Counts(ghost.found, ghost.moved)
          /\ \A n \in 1..Len(ghost.replies) :
                /\ Counts(ghost.moved, Applied(ghost.moved, ghost.replies[n]))
                /\ Uncounts(ghost.moved, RoundTrip(ghost.moved, ghost.replies[n]))

\* a castling, promotion or en passant move has been committed, after other
\* moves, and AllMoves listed replies to it
C13_Witness ==
    /\ ghost.applied > 2
    /\ Back(ghost.moved).first # NORMAL
    /\ Len(ghost.replies) > 0

\* the player EndGameText names as the winner: GetOtherPlayerConst
Winner(c) == IF c.whites_turn THEN "black" ELSE "white"

Score(c, who) == IF who = "white" THEN c.white.score ELSE c.black.score

\* C14: when AllMoves lists no reply to the committed move, CheckEndgame
\* reports checkmate, the winner is the player who made the move, that
\* player's score is 900 more than MovePiece left it, the other score is as
\* it was, and the fifty-move counter is as MovePiece left it
C14_NoReplyIsCheckmate ==
    (ghost.applied > 0 /\ ghost.replies = <<>>) =>
        /\ outcome = CHECKMATE
        /\ Winner(chess) = Winner(ghost.moved)
        /\ (Winner(chess) = "white") = ghost.found.whites_turn
        /\ Score(chess, Winner(chess))
              = (Score(ghost.moved, Winner(chess)) + 900) % 65536
        /\ \A who \in {"white", "black"} \ {Winner(chess)} :
              Score(chess, who) = Score(ghost.moved, who)
        /\ chess.moves_after_last_pawn_move_or_capture
              = ghost.moved.moves_after_last_pawn_move_or_capture

\* a committed move left the other side without a move and not in check
C14_Witness ==
    /\ ghost.applied > 0
    /\ ghost.replies = <<>>
    /\ outcome = CHECKMATE
    /\ ~Attacked(chess.board, chess.whites_turn)

\* the number of squares of the board b holding the piece p
CountOf(b, p) == Cardinality({n \in 1..Len(b) : b[n] = p})

OneKingEach(b) == CountOf(b, W_KING) = 1 /\ CountOf(b, B_KING) = 1

\* C15: the board a committed move was made on, the board MovePiece left
\* and the board CheckEndgame left each hold exactly one white king and
\* exactly one black king, and so does the board after any listed reply
C15_OneKingOfEachColour ==
    /\ OneKingEach(chess.board)
    /\ OneKingEach(ghost.found.board)
    /\ OneKingEach(ghost.moved.board)
    /\ \A n \in 1..Len(ghost.replies) :
          OneKingEach(Applied(ghost.moved, ghost.replies[n]).board)

\* a player whose king was attacked has committed a move of that king, and
\* AllMoves has listed the replies to it
C15_Witness ==
    /\ ghost.applied > 0
    /\ Attacked(ghost.found.board, ghost.found.whites_turn)
    /\ Back(ghost.moved).first = NORMAL
    /\ Chr(Back(ghost.moved), 4) \in {W_KING, B_KING}
    /\ Len(ghost.replies) > 0

Castling(c, who) == IF who = "white" THEN c.white.castling ELSE c.black.castling

\* C16: a player who has committed a move of a king or a rook, castling
\* included, since the game began has the castling flag false in the
\* position every later turn starts from once its search or move generation
\* has returned, in the position MovePiece leaves and in the position
\* CheckEndgame leaves
C16_CastlingStaysLost ==
    /\ \A who \in ghost.had : ~Castling(ghost.found, who)
    /\ \A who \in ghost.lost : ~Castling(ghost.moved, who) /\ ~Castling(chess, who)

\* a player who had given up castling earlier has been listed a move of the
\* king or of a rook, tried and undone by AllMoves, and has committed a move
C16_Witness ==
    /\ ghost.applied > 2
    /\ (IF ghost.found.whites_turn THEN "white" ELSE "black") \in ghost.had
    /\ \E n \in 1..Len(ghost.listed) :
          Forfeits(ghost.found, ChangeToRealCoordinates(ghost.listed[n])) # {}
    /\ Len(ghost.replies) > 0

\* C17: when Reset has run on a game that had ended, the Chess object is
\* the one the constructor builds for the same players: the starting
\* board, white to move, both castling flags true, both scores 0, an empty
\* log and the fifty-move counter 0
C17_ResetIsNewGame ==
    ghost.over # <<>> =>
        /\ chess = NewChess(ghost.over[1].white.difficulty,
                            ghost.over[1].black.difficulty)
        /\ chess.board = STARTING_BOARD
        /\ chess.whites_turn
        /\ chess.white.castling /\ chess.black.castling
        /\ chess.white.score = 0 /\ chess.black.score = 0
        /\ chess.all_game_moves = <<>>
        /\ chess.moves_after_last_pawn_move_or_capture = 0

\* Reset has run on a game in which every one of these had changed
C17_Witness ==
    /\ ghost.over # <<>>
    /\ ghost.over[1].board # STARTING_BOARD
    /\ ~ghost.over[1].whites_turn
    /\ ~ghost.over[1].black.castling
    /\ ghost.over[1].white.score + ghost.over[1].black.score > 0
    /\ ghost.over[1].all_game_moves # <<>>
    /\ ghost.over[1].moves_after_last_pawn_move_or_capture > 0

\* EvaluateBoard(true) is the negation of EvaluateBoard(false) on the board of c
Antisymmetric(c) == EvaluateBoard(c, TRUE) = -EvaluateBoard(c, FALSE)

\* C18: on the board the game stands on, on the board a turn started from,
\* on the board MovePiece left and on the board after every listed reply,
\* EvaluateBoard(true) equals the negation of EvaluateBoard(false)
C18_EvaluateBoardNegates ==
    /\ Antisymmetric(chess)
    /\ Antisymmetric(ghost.found)
    /\ Antisymmetric(ghost.moved)
    /\ \A n \in 1..Len(ghost.replies) :
          Antisymmetric(Applied(ghost.moved, ghost.replies[n]))

\* the board after a move the search chose has an evaluation that is not a
\* whole number of points
C18_Witness ==
    /\ ghost.searched
    /\ EvaluateBoard(chess, TRUE) % 2 = 1
    /\ EvaluateBoard(chess, FALSE) # 0

\* the committed move was a castling move that AllMoves had listed
CastledFromList ==
    /\ ghost.applied > 0
    /\ Back(ghost.moved).first = CASTLING
    /\ Has(ghost.listed, ChangeToString(ghost.move))

\* the home rank after castling to the file x2: the king on x2, the rook
\* of that wing next to it, their original squares empty
Castled(b, white, x2) ==
    LET line == (BOARD_SIZE - 1) * B2I(white)
        king == B_KING + 7 * B2I(white)
        rook == B_ROOK + 7 * B2I(white)
    IN  /\ x2 \in {2, 6}
        /\ At(b, x2, line) = king
        /\ At(b, IF x2 = 2 THEN 3 ELSE 5, line) = rook
        /\ At(b, 4, line) = EMPTY
        /\ At(b, IF x2 = 2 THEN 0 ELSE 7, line) = EMPTY

\* C19: when the committed move is a castling move from the list AllMoves
\* produced for the position, MovePiece leaves the king on file c or g of
\* the home rank with the rook of that wing on file d or f, the squares
\* both came from empty, the log entry tagged castling and the mover's
\* castling flag false
C19_CastlingPlacesKingAndRook ==
    CastledFromList =>
        /\ Castled(ghost.moved.board, ghost.found.whites_turn, ghost.move[3])
        /\ ghost.move[4] = (BOARD_SIZE - 1) * B2I(ghost.found.whites_turn)
        /\ ~Castling(ghost.moved, IF ghost.found.whites_turn THEN "white" ELSE "black")

C19_Witness == CastledFromList /\ ghost.move[3] = 2 /\ Len(ghost.replies) > 0

\* MovePieceBack after MovePiece(move, false, false) has put the pawn back
\* on the source square of move and the former content on its destination
PromotionUndone(c, move) ==
    LET r == ChangeToRealCoordinates(move)
        b == RoundTrip(c, move).board
    IN  /\ At(b, r[1], r[2]) = (IF c.whites_turn THEN W_PAWN ELSE B_PAWN)
        /\ At(b, r[3], r[4]) = At(c.board, r[3], r[4])

\* the replies to the committed move that promote a pawn
PromotionReplies ==
    {n \in 1..Len(ghost.replies) :
        LET r == ChangeToRealCoordinates(ghost.replies[n])
        IN  IsPromotion(ghost.moved, r[1], r[2], r[3], r[4])}

C21_CountsOnlyEqualPositions ==
    (ghost.applied > 0 /\ outcome = THREEFOLD_REP) => Occurrences >= 3

\* the difficulty of the player who made the committed move
MoverDifficulty ==
    IF ghost.found.whites_turn THEN ghost.found.white.difficulty
    ELSE ghost.found.black.difficulty

\* C22 as stated: every position the search evaluated statically lies as
\* many plies after the root position as the difficulty says
C22_EvaluatedAtDifficulty ==
    ghost.searched => \A p \in ghost.plies : p = MoverDifficulty

\* C22: every position the search evaluated statically lies one ply more
\* after the root position than the difficulty says: the root move, then
\* as many plies as the difficulty
C22_EvaluatedOnePlyDeeper ==
    ghost.searched => \A p \in ghost.plies : p = MoverDifficulty + 1

\* a search has evaluated positions statically
C22_Witness == ghost.searched /\ ghost.plies # {}

\* the recursion of AlphaBeta with the break at alpha >= beta removed
RECURSIVE Minimax(_, _, _, _, _, _)

MinimaxBack(s, node, maximizing_player, r) ==
    [AlphaBetaBack(s, node, maximizing_player, r) EXCEPT !.done = FALSE]

MinimaxStep(s, node, depth, maximizing_player, initial_turn) ==
    IF s.done THEN s
    ELSE IF GetPiece(s.c, node[3], node[4]) = W_KING - 7 * B2I(GetTurn(s.c))
    THEN [s EXCEPT !.points = IF maximizing_player THEN PosInf ELSE -PosInf,
                   !.done = TRUE]
    ELSE MinimaxBack(s, node, maximizing_player,
                     Minimax(MovePiece(s.c, node[1], node[2], node[3], node[4],
                                       FALSE, FALSE, W_QUEEN),
                             depth - 1, s.alpha, s.beta,
                             ~maximizing_player, initial_turn))

RECURSIVE MinimaxLoop(_, _, _, _, _, _, _)
MinimaxLoop(s, children, lo, hi, depth, maximizing_player, initial_turn) ==
    IF s.done \/ lo > hi THEN s
    ELSE IF lo = hi
    THEN MinimaxStep(s, children[lo], depth, maximizing_player, initial_turn)
    ELSE MinimaxLoop(MinimaxLoop(s, children, lo, (lo + hi) \div 2, depth,
                                 maximizing_player, initial_turn),
                     children, (lo + hi) \div 2 + 1, hi, depth,
                     maximizing_player, initial_turn)

MinimaxOver(sub, depth, alpha, beta, maximizing_player, initial_turn) ==
    AlphaBetaReturn(
        MinimaxLoop([c |-> sub.c, alpha |-> alpha, beta |-> beta,
                     points |-> IF maximizing_player THEN -PosInf ELSE PosInf,
                     done |-> FALSE, plies |-> {}, cuts |-> 0],
                    sub.children, 1, Len(sub.children), depth,
                    maximizing_player, initial_turn))

Minimax(c, depth, alpha, beta, maximizing_player, initial_turn) ==
    IF depth = 0
    THEN [points |-> EvaluateBoard(c, initial_turn), c |-> c,
          plies |-> {Len(c.all_game_moves)}, cuts |-> 0]
    ELSE MinimaxOver(CreateSubtree(c), depth, alpha, beta,
                     maximizing_player, initial_turn)

\* the loop of AlphaBetaRoot with Minimax in the place of AlphaBeta
MinimaxRootStep(s, node, difficulty) ==
    IF s.stale THEN s
    ELSE IF GetPiece(s.c, node[3], node[4]) = W_KING - 7 * B2I(GetTurn(s.c))
    THEN [s EXCEPT !.ideal_moves = <<node>>, !.stale = TRUE]
    ELSE RootBack(s, node,
                  Minimax(MovePiece(s.c, node[1], node[2], node[3], node[4],
                                    FALSE, FALSE, W_QUEEN),
                          difficulty, -AlphaInit, AlphaInit, FALSE, GetTurn(s.c)))

RECURSIVE MinimaxRootLoop(_, _, _, _, _)
MinimaxRootLoop(s, children, lo, hi, difficulty) ==
    IF s.stale \/ lo > hi THEN s
    ELSE IF lo = hi THEN MinimaxRootStep(s, children[lo], difficulty)
    ELSE MinimaxRootLoop(MinimaxRootLoop(s, children, lo, (lo + hi) \div 2,
                                         difficulty),
                         children, (lo + hi) \div 2 + 1, hi, difficulty)

MinimaxRootOver(sub, difficulty) ==
    MinimaxRootLoop([c |-> sub.c, max_move_score |-> -PosInf,
                     ideal_moves |-> <<>>, stale |-> FALSE, plies |-> {},
                     cuts |-> 0, scores |-> <<>>],
                    sub.children, 1, Len(sub.children), difficulty)

MinimaxRoot(c, difficulty) == MinimaxRootOver(CreateSubtree(c), difficulty)

\* the search agrees with the search without cut-offs, full
AgreesWith(full) ==
    /\ ghost.scores = full.scores
    /\ \E n \in 1..Len(full.ideal_moves) : full.ideal_moves[n] = ghost.move
    /\ \A n \in 1..Len(full.scores) : full.scores[n] <= full.max_move_score

\* C23: the move the search returned is in the list AllMoves gave for the
\* root position, the score the search gave each root move is the score the
\* same recursion gives it without the break at alpha >= beta, and the move
\* returned is one of those with the highest such score
C23_PruningKeepsScores ==
    ghost.searched =>
        /\ Has(ghost.listed, ChangeToString(ghost.move))
        /\ AgreesWith(MinimaxRoot(ghost.before, MoverDifficulty))

\* a search of more than one root move has left loops by the break
C23_Witness == ghost.searched /\ ghost.cuts > 0 /\ Len(ghost.scores) > 1

\* C24: the call of AllMoves a turn's move is chosen from, and the call of
\* AllMoves in CheckEndgame after the move, each leave the board, the side
\* to move, both castling flags and the log as they were before the call
C24_AllMovesLeavesPosition ==
    ghost.applied > 0 =>
        /\ Frame(ghost.found) = Frame(ghost.before)
        /\ Frame(chess) = Frame(ghost.moved)

\* C25: on the board the game stands on, and on the board after each
\* candidate KingMoves gives the side to move, the answer of IsCheck for
\* that side is the answer the 64 squares alone give: no byte outside the
\* board decides it
KingStep(c, move) ==
    LET r == ChangeToRealCoordinates(move)
    IN  MovePiece(c, r[1], r[2], r[3], r[4], FALSE, FALSE, W_QUEEN).board

C25_IsCheckReadsBoardOnly ==
    /\ IsCheck(chess.board, chess.whites_turn)
         = Attacked(chess.board, chess.whites_turn)
    /\ \E k \in {KingSquare(chess.board, chess.whites_turn)} :
         \E moves \in {KingMoves(chess, k[1], k[2])} :
            \A n \in 1..Len(moves) :
               IsCheck(KingStep(chess, moves[n]), chess.whites_turn)
                 = Attacked(KingStep(chess, moves[n]), chess.whites_turn)

\* the undo of the move r, made on c, goes through the rook case or the
\* non-castling king case of MovePieceBack
UndoReadsThird(c, r) ==
    \/ Cell(c.board, r[2], r[1]) \in {W_ROOK, B_ROOK}
    \/ /\ Cell(c.board, r[2], r[1]) \in {W_KING, B_KING}
       /\ AppendToAllGameMoves(c, r[1], r[2], r[3], r[4]).all_game_moves
             [Len(c.all_game_moves) + 1].first # CASTLING

\* the log MovePieceBack finds when it undoes a move made on c: three
\* entries at least, the third from the end a move of the same player, and
\* the flag it recorded the flag that player had in c
ThirdIsOwn(c, log) ==
    /\ Len(log) >= 3
    /\ \E e \in {log[Len(log) - 2]} :
         e.first # CASTLING =>
            /\ (Chr(e, 4) > 0) = c.whites_turn
            /\ (Chr(e, 6 + B2I(e.first = PROMOTION)) # 0)
                  = GetCurrentPlayerConst(c).castling

\* the moves the generators give for c, before the test for check
RealOf(moves) == {ChangeToRealCoordinates(moves[n]) : n \in 1..Len(moves)}

Candidates(c) == RealOf(Generate(c, <<>>, 0, BOARD_SIZE * BOARD_SIZE - 1))

\* every undo of a rook move or of a king move other than castling that
\* the generators give for c finds such a log
ThirdIsOwnIn(c) ==
    \A r \in Candidates(c) :
        UndoReadsThird(c, r) =>
            ThirdIsOwn(c, MovePiece(c, r[1], r[2], r[3], r[4],
                                    FALSE, FALSE, W_QUEEN).all_game_moves)

\* C26: for every rook move and every king move other than castling that
\* the generators give for the position a turn starts from, for the
\* position MovePiece has just produced and for the position the game
\* stands on, the log that MovePieceBack finds when it undoes the move
\* holds three entries at least, the entry three from the end is a move of
\* the same player, and the flag that entry recorded is the player's
\* castling flag before the move
C26_ThirdEntryIsOwnFlag ==
    /\ ThirdIsOwnIn(chess)
    /\ ghost.applied > 0 => ThirdIsOwnIn(ghost.moved)

C26_Witness ==
    /\ \E r \in Candidates(chess) :
          UndoReadsThird(chess, r) /\ GetCurrentPlayerConst(chess).castling
    /\ \E r \in Candidates(ghost.before) :
          UndoReadsThird(ghost.before, r)
          /\ ~GetCurrentPlayerConst(ghost.before).castling

\* the steps the pawn on square n of b is from its last row, 0 for any other
\* content of the square
PawnSteps(b, n) ==
    IF b[n] = W_PAWN THEN (n - 1) \div BOARD_SIZE
    ELSE IF b[n] = B_PAWN THEN BOARD_SIZE - 1 - (n - 1) \div BOARD_SIZE
    ELSE 0

\* 100 for every piece on the squares 1..n of b and 1 for every step a pawn
\* has left: no move adds to it, a capture and a pawn move take from it
RECURSIVE Material(_, _)
Material(b, n) ==
    IF n = 0 THEN 0
    ELSE Material(b, n - 1) + PawnSteps(b, n) + 100 * B2I(b[n] # EMPTY)

\* what is left of a game: the material first, then the quiet plies left
\* before the fifty-move draw
Rank(c) ==
    (FiftyLimit + 1) * Material(c.board, BOARD_SIZE * BOARD_SIZE)
    + FiftyLimit - c.moves_after_last_pawn_move_or_capture

\* a move has been committed and CheckEndgame has let the game go on
MoveCommitted ==
    /\ Len(chess'.all_game_moves) = Len(chess.all_game_moves) + 1
    /\ outcome' = ONGOING

CounterInRange ==
    /\ chess.moves_after_last_pawn_move_or_capture \in 0..FiftyLimit
    /\ outcome = ONGOING
         => chess.moves_after_last_pawn_move_or_capture < FiftyLimit

\* C27: the fifty-move counter is always within 0..50, and below 50 while
\* the game goes on; and every committed move after which CheckEndgame
\* reports no end of the game leaves strictly less of the game than there
\* was (material, then quiet plies up to the fiftieth), a quantity that is
\* never negative: so no game goes on for ever
C27_CounterBoundedGameEnds ==
    /\ []CounterInRange
    /\ [][MoveCommitted => Rank(chess') < Rank(chess) /\ Rank(chess') >= 0]_vars

C27_Witness ==
    /\ ghost.applied > 0
    /\ outcome = ONGOING
    /\ chess.moves_after_last_pawn_move_or_capture = FiftyLimit - 1
    /\ Rank(chess) < Rank(ghost.before)

====
